---------------------------- MODULE Spec2Model ----------------------------
(***************************************************************************)
(* Model of the jellyfin-music-cleanup deduplication and cleanup engine:   *)
(*   src/duplicate_finder.py  DuplicateFinder (normalize_name,             *)
(*                            suggest_canonical_name, find_duplicates)     *)
(*   src/app.py               scan_junk_artists, _match_playlist_to_album, *)
(*                            _normalize_for_dedup,                        *)
(*                            merge_selected_artist_pairs                  *)
(* Names are TLA+ strings; a character is a string of length 1.            *)
(* rapidfuzz's fuzz.ratio / fuzz.token_sort_ratio are modelled by what     *)
(* they compute (normalized Indel similarity, scaled to 0..100), as exact  *)
(* rationals <<numerator, denominator>>.                                   *)
(***************************************************************************)
EXTENDS Integers, Sequences, FiniteSets, TLC

VARIABLES
    \* --- Name Normalizer: normalize_name applied once, then to its own result
    nPc, nIn, nOut1, nOut2,
    \* --- scan_duplicates / DuplicateFinder.find_duplicates
    fdPc, fdArtists, fdThreshold, duplicate_groups, current_group_index,
    \* --- scan_junk_artists
    jPc, jRaw, jFlagged, junk_choices, junk_artist_candidates,
    \* --- _match_playlist_to_album
    mpPc, mpName, mpAlbums, mpResult,
    \* --- scan_artist_duplicates / merge_selected_artist_pairs; retired holds the
    \* ids of the artists the catalog deleted during the call
    mPc, mRaw, artist_duplicate_pairs, selected, preferred_side, mPair,
    winner_tracks, loser_tracks, mTrack, deleted_dupes, reassigned,
    merged_pairs, report, errors, requests, retired,
    \* --- scan_bogus_playlists / delete_selected_playlists
    plPc, plPlaylists, plAlbums, bogus_playlists, pl_choices, pl_preselected,
    pl_selected, plIdx, pl_deleted, pl_errors, m3u_paths, pl_requests,
    \* --- apply_rename
    arPc, preferred_name, arIdx, renamed, ar_requests, ar_result,
    \* --- DuplicateFinder.suggest_canonical_name
    cnPc, cnNames, cnResult,
    \* --- connect_spotify / generate_playlist_preview / save_playlist
    gpPc, spotify_client, artist_names, playlist_style, track_count, track_source,
    decade, all_spotify_tracks, gpIdx, matched_track_ids, pending_playlist, last_preview,
    create_requests, save_status

normVars  == <<nPc, nIn, nOut1, nOut2>>
fdVars    == <<fdPc, fdArtists, fdThreshold, duplicate_groups, current_group_index>>
junkVars  == <<jPc, jRaw, jFlagged, junk_choices, junk_artist_candidates>>
mpVars    == <<mpPc, mpName, mpAlbums, mpResult>>
mergeVars == <<mPc, mRaw, artist_duplicate_pairs, selected, preferred_side, mPair,
               winner_tracks, loser_tracks, mTrack, deleted_dupes, reassigned,
               merged_pairs, report, errors, requests, retired>>
plVars    == <<plPc, plPlaylists, plAlbums, bogus_playlists, pl_choices, pl_preselected,
               pl_selected, plIdx, pl_deleted, pl_errors, m3u_paths, pl_requests>>
arVars    == <<arPc, preferred_name, arIdx, renamed, ar_requests, ar_result>>
cnVars    == <<cnPc, cnNames, cnResult>>
gpVars    == <<gpPc, spotify_client, artist_names, playlist_style, track_count,
               track_source, decade, all_spotify_tracks, gpIdx, matched_track_ids, pending_playlist,
               last_preview, create_requests, save_status>>
vars == <<normVars, fdVars, junkVars, mpVars, plVars, arVars, cnVars, mergeVars, gpVars>>

-----------------------------------------------------------------------------
(* Characters and elementary string functions (Python str methods).        *)

\* The characters of the model's names, in code-point order.
Alphabet == " !&()+,-./0123456789ABCDEFGHIJKLMNOPQRSTUVWXYZ_abcdefghijklmnopqrstuvwxyz"
UpperCase == "ABCDEFGHIJKLMNOPQRSTUVWXYZ"
LowerCase == "abcdefghijklmnopqrstuvwxyz"
Digits    == "0123456789"

CharAt(s, i) == SubSeq(s, i, i)

\* 1-based index of the first occurrence of character c in s, 0 if none.
RECURSIVE IndexOfCharFrom(_, _, _)
IndexOfCharFrom(s, c, i) ==
    IF i > Len(s) THEN 0
    ELSE IF CharAt(s, i) = c THEN i
    ELSE IndexOfCharFrom(s, c, i + 1)

CharsOf(s) == {CharAt(s, i) : i \in 1..Len(s)}
AlphabetChars == CharsOf(Alphabet)
UpperChars    == CharsOf(UpperCase)
LowerChars    == CharsOf(LowerCase)
DigitChars    == CharsOf(Digits)

IsSpace(c) == c \in {" ", "\t", "\n", "\r"}
IsDigit(c) == c \in DigitChars
IsUpper(c) == c \in UpperChars
IsLower(c) == c \in LowerChars
IsAlpha(c) == IsUpper(c) \/ IsLower(c)
\* \w of Python's re: letters, digits and the underscore.
IsWord(c)  == IsAlpha(c) \/ IsDigit(c) \/ c = "_"

\* The lower-case and upper-case form and the code-point rank of each character.
LowerOf == [c \in AlphabetChars |->
               IF IsUpper(c) THEN CharAt(LowerCase, IndexOfCharFrom(UpperCase, c, 1)) ELSE c]
UpperOf == [c \in AlphabetChars |->
               IF IsLower(c) THEN CharAt(UpperCase, IndexOfCharFrom(LowerCase, c, 1)) ELSE c]
OrdOf   == [c \in AlphabetChars |-> IndexOfCharFrom(Alphabet, c, 1)]

RECURSIVE LowerFrom(_, _)
LowerFrom(s, i) ==
    IF i > Len(s) THEN "" ELSE LowerOf[CharAt(s, i)] \o LowerFrom(s, i + 1)
\* str.lower()
Lower(s) == LowerFrom(s, 1)

RECURSIVE UpperFrom(_, _)
UpperFrom(s, i) ==
    IF i > Len(s) THEN "" ELSE UpperOf[CharAt(s, i)] \o UpperFrom(s, i + 1)
\* str.upper()
Upper(s) == UpperFrom(s, 1)

\* First index >= i of s that holds no whitespace (Len(s)+1 if none).
RECURSIVE SkipSpace(_, _)
SkipSpace(s, i) ==
    IF i <= Len(s) /\ IsSpace(CharAt(s, i)) THEN SkipSpace(s, i + 1) ELSE i

\* Last index <= i of s that holds no whitespace (0 if none).
RECURSIVE SkipSpaceBack(_, _)
SkipSpaceBack(s, i) ==
    IF i >= 1 /\ IsSpace(CharAt(s, i)) THEN SkipSpaceBack(s, i - 1) ELSE i

\* str.strip()
Strip(s) == SubSeq(s, SkipSpace(s, 1), SkipSpaceBack(s, Len(s)))

\* s[i:] starts with pat
StartsWithAt(s, pat, i) ==
    /\ i >= 1
    /\ i + Len(pat) - 1 <= Len(s)
    /\ SubSeq(s, i, i + Len(pat) - 1) = pat

\* Index of the first occurrence of pat in s at or after i, 0 if none (str.find + 1).
RECURSIVE FindFrom(_, _, _)
FindFrom(s, pat, i) ==
    IF i + Len(pat) - 1 > Len(s) THEN 0
    ELSE IF StartsWithAt(s, pat, i) THEN i
    ELSE FindFrom(s, pat, i + 1)

\* pat in s
Contains(s, pat) == FindFrom(s, pat, 1) > 0

\* s.count(c) for a single character c
RECURSIVE CountCharFrom(_, _, _)
CountCharFrom(s, c, i) ==
    IF i > Len(s) THEN 0
    ELSE (IF CharAt(s, i) = c THEN 1 ELSE 0) + CountCharFrom(s, c, i + 1)

-----------------------------------------------------------------------------
(* Regular-expression substitutions used by the normalizers (Python re.sub: *)
(* leftmost, non-overlapping matches, scanned left to right).               *)

\* A match of \s+WORD\s+ starting at i: the index just past the match, 0 if
\* none.  Both \s+ are greedy and WORD starts with a non-space, so the first
\* run is the whole whitespace run at i, the second the whole run after WORD.
MatchSpWordSp(s, word, i) ==
    LET j == SkipSpace(s, i)
        k == j + Len(word)
    IN  IF /\ i <= Len(s) /\ IsSpace(CharAt(s, i))
           /\ StartsWithAt(s, word, j)
           /\ k <= Len(s) /\ IsSpace(CharAt(s, k))
        THEN SkipSpace(s, k)
        ELSE 0

\* re.sub(r'\s+WORD\s+', repl, s)
RECURSIVE SubSpWordSpFrom(_, _, _, _)
SubSpWordSpFrom(s, word, repl, i) ==
    IF i > Len(s) THEN ""
    ELSE LET m == MatchSpWordSp(s, word, i)
         IN  IF m > 0
             THEN repl \o SubSpWordSpFrom(s, word, repl, m)
             ELSE CharAt(s, i) \o SubSpWordSpFrom(s, word, repl, i + 1)
SubSpWordSp(s, word, repl) == SubSpWordSpFrom(s, word, repl, 1)

\* re.sub(r'^the\s+', '', s)
SubLeadingThe(s) ==
    IF StartsWithAt(s, "the", 1) /\ Len(s) >= 4 /\ IsSpace(CharAt(s, 4))
    THEN SubSeq(s, SkipSpace(s, 4), Len(s))
    ELSE s

\* A match of \s*OPEN.*?\) starting at i (OPEN is "(feat." or "(ft."): the
\* index just past the first ")" after OPEN, 0 if there is no match at i.
MatchParen(s, open, i) ==
    LET j == SkipSpace(s, i)
        c == IF StartsWithAt(s, open, j) THEN FindFrom(s, ")", j + Len(open)) ELSE 0
    IN  IF c > 0 THEN c + 1 ELSE 0

\* re.sub(r'\s*\(feat\..*?\)', '', s) and the same for "(ft."
RECURSIVE SubParenFrom(_, _, _)
SubParenFrom(s, open, i) ==
    IF i > Len(s) THEN ""
    ELSE LET m == MatchParen(s, open, i)
         IN  IF m > 0
             THEN SubParenFrom(s, open, m)
             ELSE CharAt(s, i) \o SubParenFrom(s, open, i + 1)
SubParen(s, open) == SubParenFrom(s, open, 1)

\* re.sub(r'\s*TAG.*$', '', s) (TAG is "feat." or "ft."): everything from the
\* whitespace run before the first TAG to the end of the string is removed.
SubTrailing(s, tag) ==
    LET p == FindFrom(s, tag, 1)
    IN  IF p = 0 THEN s ELSE SubSeq(s, 1, SkipSpaceBack(s, p - 1))

\* re.sub(r'\s+', ' ', s)
RECURSIVE CollapseSpaceFrom(_, _)
CollapseSpaceFrom(s, i) ==
    IF i > Len(s) THEN ""
    ELSE IF IsSpace(CharAt(s, i))
         THEN " " \o CollapseSpaceFrom(s, SkipSpace(s, i))
         ELSE CharAt(s, i) \o CollapseSpaceFrom(s, i + 1)
CollapseSpace(s) == CollapseSpaceFrom(s, 1)

-----------------------------------------------------------------------------
(* DuplicateFinder.normalize_name: the coarse normalizer.                  *)

\* The words whose presence in the second part blocks the "Last, First"
\* rewrite (substring test, line 43).
FunctionWords == {"the", "and", "&", "feat", "with"}

\* Lines 40-44: the "Last, First" rewrite of a stripped name.
LastFirst(name) ==
    IF Contains(name, ", ") /\ CountCharFrom(name, ",", 1) = 1
    THEN LET p      == FindFrom(name, ", ", 1)
             first  == SubSeq(name, 1, p - 1)
             second == SubSeq(name, p + 2, Len(name))
         IN  IF ~ \E word \in FunctionWords : Contains(Lower(second), word)
             THEN second \o " " \o first
             ELSE name
    ELSE name

\* Lines 46-49: case folding, "and" -> "&", removal of "the".
FoldWords(name) ==
    SubLeadingThe(SubSpWordSp(SubSpWordSp(Lower(name), "and", " & "), "the", " "))

\* Lines 51-58: featured-artist suffixes, in the order of suffixes_to_remove.
StripFeat(name) ==
    SubTrailing(SubTrailing(SubParen(SubParen(name, "(feat."), "(ft."), "feat."), "ft.")

normalize_name(name) ==
    Strip(CollapseSpace(StripFeat(FoldWords(LastFirst(Strip(name))))))

-----------------------------------------------------------------------------
(* Similarity Scorer: rapidfuzz fuzz.ratio and fuzz.token_sort_ratio, as   *)
(* rapidfuzz 3 computes them (no preprocessing of the strings): ratio is    *)
(* the normalized Indel similarity 200 * LCS / (len a + len b).             *)
(* A score is an exact rational <<n, d>> in lowest terms, d > 0.            *)

RECURSIVE Gcd(_, _)
Gcd(a, b) == IF b = 0 THEN a ELSE Gcd(b, a % b)

Rat(n, d) == LET g == Gcd(n, d) IN IF g = 0 THEN <<0, 1>> ELSE <<n \div g, d \div g>>
RatGE(x, y)  == x[1] * y[2] >= y[1] * x[2]
RatMax(x, y) == IF RatGE(x, y) THEN x ELSE y
RatAdd(x, y) == Rat(x[1] * y[2] + y[1] * x[2], x[2] * y[2])

\* One row of the longest-common-subsequence table: prev and cur are indexed
\* 1..Len(b)+1 for the columns 0..Len(b); c is the row's character of a.
\* (The tests on Len only make TLC compute each cell and row once, in order.)
RECURSIVE LcsCells(_, _, _, _, _)
LcsCells(c, b, prev, cur, j) ==
    IF j > Len(b) THEN cur
    ELSE LET nxt == Append(cur, IF c = CharAt(b, j)
                                THEN prev[j] + 1
                                ELSE IF prev[j + 1] >= cur[j] THEN prev[j + 1] ELSE cur[j])
         IN  IF Len(nxt) = j + 1 THEN LcsCells(c, b, prev, nxt, j + 1) ELSE nxt

RECURSIVE LcsRows(_, _, _, _)
LcsRows(a, b, prev, i) ==
    IF i > Len(a) THEN prev[Len(b) + 1]
    ELSE LET row == LcsCells(CharAt(a, i), b, prev, <<0>>, 1)
         IN  IF Len(row) = Len(b) + 1 THEN LcsRows(a, b, row, i + 1) ELSE 0

\* Length of the longest common subsequence of a and b.
LCS(a, b) == LcsRows(a, b, [k \in 1..(Len(b) + 1) |-> 0], 1)

\* fuzz.ratio: 100 * (1 - indel_distance / (len(a) + len(b))), where
\* indel_distance = len(a) + len(b) - 2 * LCS; two empty strings score 100.
ratio(a, b) ==
    IF Len(a) + Len(b) = 0 THEN <<100, 1>>
    ELSE Rat(200 * LCS(a, b), Len(a) + Len(b))

\* Code-point order of the model's characters.
CharOrd(c) == OrdOf[c]

\* a < b in Python's string order
RECURSIVE StrLessFrom(_, _, _)
StrLessFrom(a, b, i) ==
    IF i > Len(a) THEN i <= Len(b)
    ELSE IF i > Len(b) THEN FALSE
    ELSE IF CharAt(a, i) = CharAt(b, i) THEN StrLessFrom(a, b, i + 1)
    ELSE CharOrd(CharAt(a, i)) < CharOrd(CharAt(b, i))
StrLess(a, b) == StrLessFrom(a, b, 1)

\* Index of the first whitespace of s at or after i (Len(s)+1 if none).
RECURSIVE SkipWord(_, _)
SkipWord(s, i) ==
    IF i <= Len(s) /\ ~IsSpace(CharAt(s, i)) THEN SkipWord(s, i + 1) ELSE i

\* str.split(): the whitespace-separated tokens of s
RECURSIVE SplitFrom(_, _)
SplitFrom(s, i) ==
    LET j == SkipSpace(s, i)
    IN  IF j > Len(s) THEN <<>>
        ELSE <<SubSeq(s, j, SkipWord(s, j) - 1)>> \o SplitFrom(s, SkipWord(s, j))
Split(s) == SplitFrom(s, 1)

\* Insert token t into the sorted sequence ts (after its equals).
RECURSIVE InsertSorted(_, _)
InsertSorted(t, ts) ==
    IF ts = <<>> THEN <<t>>
    ELSE IF StrLess(t, Head(ts)) THEN <<t>> \o ts
    ELSE <<Head(ts)>> \o InsertSorted(t, Tail(ts))

\* sorted(tokens)
RECURSIVE SortTokens(_)
SortTokens(ts) ==
    IF ts = <<>> THEN <<>>
    ELSE InsertSorted(ts[Len(ts)], SortTokens(SubSeq(ts, 1, Len(ts) - 1)))

\* " ".join(tokens)
RECURSIVE JoinTokens(_)
JoinTokens(ts) ==
    IF ts = <<>> THEN ""
    ELSE IF Len(ts) = 1 THEN ts[1]
    ELSE ts[1] \o " " \o JoinTokens(Tail(ts))

\* fuzz.token_sort_ratio: ratio of the two strings with their tokens sorted.
token_sort_ratio(a, b) ==
    ratio(JoinTokens(SortTokens(Split(a))), JoinTokens(SortTokens(Split(b))))

-----------------------------------------------------------------------------
(* DuplicateFinder.suggest_canonical_name: the Canonical Name Arbiter.      *)

\* str.title(): a cased character is upper-cased when the character before
\* it is not cased, lower-cased otherwise.
RECURSIVE TitleFrom(_, _, _)
TitleFrom(s, i, prevCased) ==
    IF i > Len(s) THEN ""
    ELSE LET c == CharAt(s, i)
         IN  (IF IsAlpha(c)
              THEN (IF prevCased THEN LowerOf[c] ELSE UpperOf[c])
              ELSE c) \o TitleFrom(s, i + 1, IsAlpha(c))
Title(s) == TitleFrom(s, 1, FALSE)

\* re.search(r'\s+(and|&)\s+the\s+', name, re.IGNORECASE)
HasAndThe(name) ==
    LET n == Lower(name)
    IN  \E i \in 1..Len(n) : \E w \in {"and", "&"} :
            LET j == SkipSpace(n, i)
                k == j + Len(w)
            IN  /\ IsSpace(CharAt(n, i))
                /\ StartsWithAt(n, w, j)
                /\ k <= Len(n) /\ IsSpace(CharAt(n, k))
                /\ MatchSpWordSp(n, "the", k) > 0

\* Lines 74-83: the score of one name, in tenths (len(name) / 10 is exact).
NameScore(name) ==
      (IF ~Contains(name, ", ") THEN 100 ELSE 0)
    + Len(name)
    + (IF HasAndThe(name) THEN 50 ELSE 0)
    + (IF name = Title(name) THEN 30 ELSE 0)
    + (IF name # Upper(name) /\ name # Lower(name) THEN 20 ELSE 0)

\* (score, name) tuple order of Python: by score, then by name.
ScoredLess(a, b) ==
    \/ NameScore(a) < NameScore(b)
    \/ NameScore(a) = NameScore(b) /\ StrLess(a, b)

\* Lines 65-87.  scored_names.sort(reverse=True) puts the greatest
\* (score, name) tuple first.
suggest_canonical_name(names) ==
    IF names = <<>> THEN ""
    ELSE IF Len(names) = 1 THEN names[1]
    ELSE CHOOSE n \in {names[i] : i \in 1..Len(names)} :
            \A i \in 1..Len(names) : ~ScoredLess(n, names[i])

-----------------------------------------------------------------------------
(* DuplicateFinder.find_duplicates: the Grouping Engine.                    *)
(* An artist is [title, item_id, track_count]; a DuplicateGroup is          *)
(* [canonical_name, artists, similarity_score].                             *)

Titles(group_artists) == [i \in 1..Len(group_artists) |-> group_artists[i].title]

\* DuplicateGroup.total_tracks
RECURSIVE total_tracks_of(_)
total_tracks_of(group_artists) ==
    IF group_artists = <<>> THEN 0
    ELSE Head(group_artists).track_count + total_tracks_of(Tail(group_artists))
total_tracks(g) == total_tracks_of(g.artists)

\* Lines 94-95 and 111: each artist with its normalized name, in input order.
RECURSIVE Normalized(_)
Normalized(artists) ==
    IF artists = <<>> THEN <<>>
    ELSE << [norm |-> normalize_name(Head(artists).title), artist |-> Head(artists)] >>
         \o Normalized(Tail(artists))

Artists(pairs) == [i \in 1..Len(pairs) |-> pairs[i].artist]

\* Line 96: normalized_map[key], the artists with that key in input order.
Bucket(normalized, key) == Artists(SelectSeq(normalized, LAMBDA p : p.norm = key))

\* Lines 98-108: the exact-bucket pass.  A dict iterates its keys in the order
\* of their first insertion, so a bucket's place is that of its first artist.
RECURSIVE ExactGroupsFrom(_, _)
ExactGroupsFrom(normalized, i) ==
    IF i > Len(normalized) THEN <<>>
    ELSE LET key           == normalized[i].norm
             group_artists == Bucket(normalized, key)
             firstOfKey    == \A k \in 1..(i-1) : normalized[k].norm # key
         IN  (IF firstOfKey /\ Len(group_artists) > 1
              THEN << [canonical_name   |-> suggest_canonical_name(Titles(group_artists)),
                       artists          |-> group_artists,
                       similarity_score |-> <<100, 1>>] >>
              ELSE <<>>) \o ExactGroupsFrom(normalized, i + 1)
ExactGroups(artists) == ExactGroupsFrom(Normalized(artists), 1)

\* An exact pass that marks only the first artist of each group as processed.
ProcessedKeysOfFirst(groups) == {groups[g].artists[1].item_id : g \in 1..Len(groups)}

\* Line 108: the item ids of the artists of the exact groups.
ProcessedKeys(groups) ==
    UNION { {groups[g].artists[k].item_id : k \in 1..Len(groups[g].artists)} :
            g \in 1..Len(groups) }

\* Lines 127-129
best_similarity(norm1, norm2) ==
    RatMax(ratio(norm1, norm2), token_sort_ratio(norm1, norm2))

\* An acceptance test that wants the score above the threshold.
AcceptsAbove(score, threshold) == ~RatGE(<<threshold, 1>>, score)

\* Line 131: the acceptance test of the fuzzy pass.
Accepts(score, threshold) == RatGE(score, <<threshold, 1>>)

\* Lines 123-134: the inner loop from index j, for the starter remaining[i].
\* acc is [group, scores, used]: current_group, current_scores, used_in_group.
RECURSIVE FuzzyInner(_, _, _, _, _)
FuzzyInner(remaining, i, threshold, j, acc) ==
    IF j > Len(remaining) THEN acc
    ELSE LET artist2 == remaining[j].artist
             score   == best_similarity(remaining[i].norm, remaining[j].norm)
             nxt == IF artist2.item_id \in acc.used THEN acc
                    ELSE IF Accepts(score, threshold)
                         THEN [group  |-> Append(acc.group, artist2),
                               scores |-> Append(acc.scores, score),
                               used   |-> acc.used \cup {artist2.item_id}]
                         ELSE acc
         IN  IF Len(nxt.group) > 0
             THEN FuzzyInner(remaining, i, threshold, j + 1, nxt)
             ELSE nxt

RECURSIVE SumScores(_)
SumScores(scores) ==
    IF scores = <<>> THEN <<0, 1>> ELSE RatAdd(Head(scores), SumScores(Tail(scores)))

\* A score that is the last accepted score, not the mean.
last_score(current_scores) ==
    IF current_scores = <<>> THEN <<100, 1>> ELSE current_scores[Len(current_scores)]

\* Line 138
avg_score(current_scores) ==
    IF current_scores = <<>> THEN <<100, 1>>
    ELSE LET t == SumScores(current_scores)
         IN  Rat(t[1], t[2] * Len(current_scores))

\* A fuzzy pass that keeps a starter that matched nobody as a group of one.
HasMatchOrAlone(current_group) == Len(current_group) >= 1

\* Line 136: a candidate group is kept when its starter found a match.
HasMatch(current_group) == Len(current_group) > 1

\* Lines 115-144: the outer loop of the fuzzy pass from index i.
RECURSIVE FuzzyOuter(_, _, _, _)
FuzzyOuter(remaining, threshold, i, used_in_group) ==
    IF i > Len(remaining) THEN <<>>
    ELSE LET artist1 == remaining[i].artist
         IN  IF artist1.item_id \in used_in_group
             THEN FuzzyOuter(remaining, threshold, i + 1, used_in_group)
             ELSE LET acc == FuzzyInner(remaining, i, threshold, i + 1,
                                        [group  |-> <<artist1>>,
                                         scores |-> <<>>,
                                         used   |-> used_in_group \cup {artist1.item_id}])
                  IN  (IF HasMatch(acc.group)
                       THEN << [canonical_name   |-> suggest_canonical_name(Titles(acc.group)),
                                artists          |-> acc.group,
                                similarity_score |-> avg_score(acc.scores)] >>
                       ELSE <<>>)
                      \o FuzzyOuter(remaining, threshold, i + 1, acc.used)

\* A fuzzy pass over every artist, those of the exact groups included.
FuzzyGroupsOverAll(artists, threshold, processed_keys) ==
    FuzzyOuter(Normalized(artists), threshold, 1, {})

\* Lines 110-144
FuzzyGroups(artists, threshold, processed_keys) ==
    FuzzyOuter(Normalized(SelectSeq(artists, LAMBDA a : a.item_id \notin processed_keys)),
               threshold, 1, {})

\* Insert group g into gs, sorted by total_tracks descending, after the groups
\* with the same total_tracks.
RECURSIVE InsertByTracks(_, _)
InsertByTracks(g, gs) ==
    IF gs = <<>> THEN <<g>>
    ELSE IF total_tracks(g) > total_tracks(Head(gs)) THEN <<g>> \o gs
    ELSE <<Head(gs)>> \o InsertByTracks(g, Tail(gs))

\* Line 146: list.sort(key=total_tracks, reverse=True), a stable sort.
RECURSIVE SortByTracks(_)
SortByTracks(gs) ==
    IF gs = <<>> THEN <<>>
    ELSE InsertByTracks(gs[Len(gs)], SortByTracks(SubSeq(gs, 1, Len(gs) - 1)))

\* Lines 89-148
find_duplicates(artists, threshold) ==
    LET exact == ExactGroups(artists)
    IN  SortByTracks(exact \o FuzzyGroups(artists, threshold, ProcessedKeys(exact)))

-----------------------------------------------------------------------------
(* Bounded inputs.                                                          *)

\* All strings made of at most n of the given tokens, separated by one space.
RECURSIVE TokenStrings(_, _)
TokenStrings(tokens, n) ==
    IF n = 0 THEN {""}
    ELSE LET shorter == TokenStrings(tokens, n - 1)
         IN  shorter \cup {IF s = "" THEN t ELSE s \o " " \o t : s \in shorter, t \in tokens}

\* All sequences of at most n distinct elements of the set S.
RECURSIVE DistinctSeqs(_, _)
DistinctSeqs(S, n) ==
    IF n = 0 THEN {<<>>}
    ELSE LET shorter == DistinctSeqs(S, n - 1)
         IN  shorter \cup {Append(q, x) : <<q, x>> \in
                              {<<q, x>> \in shorter \X S : \A k \in 1..Len(q) : q[k] # x}}

-----------------------------------------------------------------------------
(* The Name Normalizer, applied to a raw name and then to its own result.   *)

MaxNameTokens == 4
NormTokens == {"The", "the", "and", "Beatles,", "Stones", "Andy"}
NormNames  == TokenStrings(NormTokens, MaxNameTokens)

NormIdle ==
    /\ nPc = "off" /\ nIn = "" /\ nOut1 = "" /\ nOut2 = ""

InitNorm ==
    /\ nPc = "raw" /\ nIn \in NormNames /\ nOut1 = "" /\ nOut2 = ""

\* key = normalize_name(raw)
NormalizeOnce ==
    /\ nPc = "raw"
    /\ nOut1' = normalize_name(nIn)
    /\ nPc' = "once"
    /\ UNCHANGED <<gpVars, nIn, nOut2, fdVars, junkVars, mpVars, plVars, arVars, cnVars, mergeVars>>

\* normalize_name(key)
NormalizeTwice ==
    /\ nPc = "once"
    /\ nOut2' = normalize_name(nOut1)
    /\ nPc' = "twice"
    /\ UNCHANGED <<gpVars, nIn, nOut1, fdVars, junkVars, mpVars, plVars, arVars, cnVars, mergeVars>>

NextNorm == NormalizeOnce \/ NormalizeTwice

-----------------------------------------------------------------------------
(* scan_duplicates (src/app.py): the catalog's artists are grouped by       *)
(* DuplicateFinder(threshold).find_duplicates.                              *)

MaxArtists == 3
\* The artists the catalog may hold (title, track_count); item ids are unique.
FdCatalog == {
    [title |-> "AC/DC",     track_count |-> 2],
    [title |-> "AC-DC",     track_count |-> 1],
    [title |-> "ACDC",      track_count |-> 1],
    [title |-> "The Band",  track_count |-> 2],
    [title |-> "Band",      track_count |-> 1],
    [title |-> "Bland",     track_count |-> 1],
    [title |-> "Blend",     track_count |-> 3] }
\* Larger catalogs, each in the order the catalog lists it.
FdLargeCatalogs == {
    << [title |-> "The Band", track_count |-> 2], [title |-> "AC/DC", track_count |-> 2],
       [title |-> "Band",     track_count |-> 1], [title |-> "AC-DC", track_count |-> 1],
       [title |-> "Blend",    track_count |-> 3] >>,
    << [title |-> "Band",     track_count |-> 1], [title |-> "Bland", track_count |-> 1],
       [title |-> "Blend",    track_count |-> 3], [title |-> "The Band", track_count |-> 2] >>,
    << [title |-> "AC/DC",    track_count |-> 2], [title |-> "Bland", track_count |-> 1],
       [title |-> "ACDC",     track_count |-> 1], [title |-> "Blend", track_count |-> 3],
       [title |-> "AC-DC",    track_count |-> 1] >>,
    << [title |-> "AC/DC",    track_count |-> 2], [title |-> "The Band", track_count |-> 2],
       [title |-> "AC-DC",    track_count |-> 1], [title |-> "Band", track_count |-> 1] >> }
\* Values of the "Similarity Threshold" slider (60..95).
FdThresholds == {60, 80, 90}

\* jellyfin_client.get_all_artists(refresh=True): ArtistInfo per catalog item.
ArtistList(q) ==
    [i \in 1..Len(q) |-> [title |-> q[i].title, item_id |-> i,
                          track_count |-> q[i].track_count]]

FdIdle ==
    /\ fdPc = "off" /\ fdArtists = <<>> /\ fdThreshold = 0
    /\ duplicate_groups = <<>> /\ current_group_index = 0

InitFd ==
    /\ fdPc = "idle"
    /\ fdArtists \in {ArtistList(q) :
                        q \in DistinctSeqs(FdCatalog, MaxArtists) \cup FdLargeCatalogs}
    /\ fdThreshold = 0
    /\ duplicate_groups = <<>>
    /\ current_group_index = 0

\* Lines 75-86 of src/app.py: the scan succeeds.
scan_duplicates(threshold) ==
    /\ fdPc # "off"
    /\ arPc \in {"off", "idle"}
    /\ duplicate_groups' = find_duplicates(fdArtists, threshold)
    /\ current_group_index' = 0
    /\ fdThreshold' = threshold
    /\ fdPc' = "scanned"
    /\ UNCHANGED <<gpVars, fdArtists, normVars, junkVars, mpVars, plVars, arVars, cnVars, mergeVars>>

\* Lines 87-89 of src/app.py: the catalog request raises.
scan_duplicates_failed(threshold) ==
    /\ fdPc # "off"
    /\ arPc \in {"off", "idle"}
    /\ duplicate_groups' = <<>>
    /\ fdThreshold' = threshold
    /\ fdPc' = "failed"
    /\ UNCHANGED <<gpVars, fdArtists, current_group_index, normVars, junkVars, mpVars, plVars, arVars, cnVars, mergeVars>>

NextFd ==
    \E threshold \in FdThresholds :
        scan_duplicates(threshold) \/ scan_duplicates_failed(threshold)

\* The highest index the review is followed to.
MaxIndex == 2

\* Lines 109-112 of src/app.py: "Next" moves the review one group on.
next_group ==
    /\ arPc \in {"off", "idle"}
    /\ current_group_index < MaxIndex
    /\ current_group_index' = current_group_index + 1
    /\ UNCHANGED <<fdPc, fdArtists, fdThreshold, duplicate_groups>>
    /\ UNCHANGED <<gpVars, normVars, junkVars, mpVars, plVars, arVars, cnVars, mergeVars>>

\* Lines 115-118 of src/app.py: "Previous" moves the review one group back,
\* not below the first.
prev_group ==
    /\ arPc \in {"off", "idle"}
    /\ current_group_index' = IF current_group_index - 1 > 0
                              THEN current_group_index - 1 ELSE 0
    /\ UNCHANGED <<fdPc, fdArtists, fdThreshold, duplicate_groups>>
    /\ UNCHANGED <<gpVars, normVars, junkVars, mpVars, plVars, arVars, cnVars, mergeVars>>

-----------------------------------------------------------------------------
(* scan_junk_artists (src/app.py): the Classification Rules Engine.         *)

\* _JUNK_WHITELIST
JUNK_WHITELIST == {
    "a", "x", "u2", "l7", "oz", "p!nk", "sia", "elo", "reo", "bad", "yes",
    "ratt", "tool", "cake", "hole", "bush", "live", "ride", "wire", "gang",
    "2wo", "3eb", "10cc", "inxs", "nofx", "mxpx", "acdc", "ac/dc", "ac-dc" }

\* The rule labels, in the order of _JUNK_RULES ("<=" stands for U+2264).
JunkLabels == << "numeric only", "<=2 characters", "starts with digit",
                 "long all-caps string", "looks like a category/label" >>

\* The alternatives of the last rule's group, with their optional "s" spelled out.
CategoryWords == {
    "album", "albums", "collection", "collections", "playlist", "playlists",
    "disc", "discs", "volume", "volumes", "vol.", "track", "tracks",
    "song", "songs", "greatest hits", "best of", "anthology", "box set",
    "boxset", "rarities", "single", "singles", "b-side", "b-sides" }

\* \b between the characters p and p+1 of s (p = 0: before the first).
WordBoundary(s, p) ==
    (p >= 1 /\ p <= Len(s) /\ IsWord(CharAt(s, p)))
        # (p + 1 <= Len(s) /\ IsWord(CharAt(s, p + 1)))


\* The length of the shortest run of [A-Z0-9] that the fourth rule accepts.
LongCapsMin == 12

\* re.match(pattern, name) for the k-th pattern of _JUNK_RULES: the match is
\* anchored at the start of the name.
MatchesRule(k, name) ==
    CASE k = 1 -> Len(name) >= 1 /\ \A i \in 1..Len(name) : IsDigit(CharAt(name, i))
      [] k = 2 -> Len(name) \in {1, 2}
      [] k = 3 -> Len(name) >= 1 /\ IsDigit(CharAt(name, 1))
      [] k = 4 -> Len(name) >= LongCapsMin
                  /\ \A i \in 1..Len(name) :
                         IsUpper(CharAt(name, i)) \/ IsDigit(CharAt(name, i))
      [] k = 5 -> LET lowered == Lower(name)
                  IN  \E w \in CategoryWords :
                         /\ WordBoundary(name, 0)
                         /\ StartsWithAt(lowered, w, 1)
                         /\ WordBoundary(name, Len(w))

\* Line 293: the labels of the rules that match, in rule order.
RECURSIVE JunkReasonsFrom(_, _)
JunkReasonsFrom(name, k) ==
    IF k > Len(JunkLabels) THEN <<>>
    ELSE (IF MatchesRule(k, name) THEN <<JunkLabels[k]>> ELSE <<>>)
         \o JunkReasonsFrom(name, k + 1)
JunkReasons(name) == JunkReasonsFrom(name, 1)

\* A classifier that consults no whitelist.
IsFlaggedByRulesAlone(name) == JunkReasons(name) # <<>>

\* Line 294
IsFlagged(name) == JunkReasons(name) # <<>> /\ Lower(name) \notin JUNK_WHITELIST

\* Lines 291-295
RECURSIVE Flagged(_)
Flagged(raw) ==
    IF raw = <<>> THEN <<>>
    ELSE (IF IsFlagged(Head(raw).Name)
          THEN << [artist |-> Head(raw), reasons |-> JunkReasons(Head(raw).Name)] >>
          ELSE <<>>) \o Flagged(Tail(raw))

\* Line 299: flagged.sort(key=lambda x: x[0]["Name"].lower()), a stable sort.
RECURSIVE InsertByName(_, _)
InsertByName(f, fs) ==
    IF fs = <<>> THEN <<f>>
    ELSE IF StrLess(Lower(f.artist.Name), Lower(Head(fs).artist.Name)) THEN <<f>> \o fs
    ELSE <<Head(fs)>> \o InsertByName(f, Tail(fs))

RECURSIVE SortByName(_)
SortByName(fs) ==
    IF fs = <<>> THEN <<>>
    ELSE InsertByName(fs[Len(fs)], SortByName(SubSeq(fs, 1, Len(fs) - 1)))

\* ', '.join(reasons)
RECURSIVE JoinComma(_)
JoinComma(rs) ==
    IF rs = <<>> THEN ""
    ELSE IF Len(rs) = 1 THEN rs[1]
    ELSE rs[1] \o ", " \o JoinComma(Tail(rs))

\* Line 300: the label of one flagged artist.
JunkLabel(f) == f.artist.Name \o "  [" \o JoinComma(f.reasons) \o "]"

MaxRaw == 2
\* The names the catalog's artists may have; ids are unique.
JunkNames == { "", "01", "7", "U2", "u2", "Xy", "2Pac", "10cc", "P!nk", "Queen",
               "Albums", "Vol.1", "Vol. 1", "B-Sides", "Singlesx",
               "Greatest Hits", "Queen Greatest Hits", "ABCDEFGHIJKL", "ABCDEFGHIJK" }

\* jellyfin_client.get_all_artists_raw()
RawArtists(q) == [i \in 1..Len(q) |-> [Name |-> q[i], Id |-> i]]

JunkIdle ==
    /\ jPc = "off" /\ jRaw = <<>> /\ jFlagged = <<>>
    /\ junk_choices = <<>> /\ junk_artist_candidates = <<>>

InitJunk ==
    /\ jPc = "idle"
    /\ jRaw \in {RawArtists(q) : q \in DistinctSeqs(JunkNames, MaxRaw)}
    /\ jFlagged = <<>>
    /\ junk_choices = <<>>
    /\ junk_artist_candidates = <<>>

\* Lines 288-301: the scan succeeds.
scan_junk_artists ==
    /\ jPc # "off"
    /\ LET flagged == Flagged(jRaw)
       IN  /\ junk_artist_candidates' = [i \in 1..Len(flagged) |-> flagged[i].artist]
           /\ jFlagged' = SortByName(flagged)
           /\ junk_choices' = [i \in 1..Len(flagged) |-> JunkLabel(jFlagged'[i])]
    /\ jPc' = "scanned"
    /\ UNCHANGED <<gpVars, jRaw, normVars, fdVars, mpVars, plVars, arVars, cnVars, mergeVars>>

\* Lines 302-303: the catalog request raises; the stored candidates stay.
scan_junk_artists_failed ==
    /\ jPc # "off"
    /\ jFlagged' = <<>>
    /\ junk_choices' = <<>>
    /\ jPc' = "failed"
    /\ UNCHANGED <<gpVars, jRaw, junk_artist_candidates, normVars, fdVars, mpVars, plVars, arVars, cnVars, mergeVars>>

NextJunk == scan_junk_artists \/ scan_junk_artists_failed

-----------------------------------------------------------------------------
(* _match_playlist_to_album (src/app.py): the Playlist-to-Album Matcher.    *)
(* An album is [Name, AlbumArtist]; the result is <<>> for None and         *)
(* <<display>> for a display string.                                        *)

NameScoreMin   == 85
ArtistScoreMin == 75

\* An acceptance test with both thresholds exclusive.
AlbumMatchesAbove(album, artist_norm, album_norm) ==
    LET name_score   == token_sort_ratio(Lower(album.Name), album_norm)
        artist_score == token_sort_ratio(Lower(album.AlbumArtist), artist_norm)
    IN  /\ ~RatGE(<<NameScoreMin, 1>>, name_score)
        /\ ~RatGE(<<ArtistScoreMin, 1>>, artist_score)

\* Lines 178-182: does this album match the two parts of the playlist name?
AlbumMatches(album, artist_norm, album_norm) ==
    LET name_score   == token_sort_ratio(Lower(album.Name), album_norm)
        artist_score == token_sort_ratio(Lower(album.AlbumArtist), artist_norm)
    IN  /\ RatGE(name_score, <<NameScoreMin, 1>>)
        /\ RatGE(artist_score, <<ArtistScoreMin, 1>>)

\* Line 183
AlbumDisplay(album) == album.Name \o " (by " \o album.AlbumArtist \o ")"

\* Lines 177-184: the loop over the albums from index i.
RECURSIVE FirstMatch(_, _, _, _)
FirstMatch(albums, artist_norm, album_norm, i) ==
    IF i > Len(albums) THEN <<>>
    ELSE IF AlbumMatches(albums[i], artist_norm, album_norm)
         THEN <<AlbumDisplay(albums[i])>>
         ELSE FirstMatch(albums, artist_norm, album_norm, i + 1)

\* Lines 171-176: playlist_name.split(" - ", 1) splits at the first " - ".
match_playlist_to_album(playlist_name, albums) ==
    LET p == FindFrom(playlist_name, " - ", 1)
    IN  IF p = 0 THEN <<>>
        ELSE FirstMatch(albums,
                        Lower(Strip(SubSeq(playlist_name, 1, p - 1))),
                        Lower(Strip(SubSeq(playlist_name, p + 3, Len(playlist_name)))),
                        1)

MaxAlbums == 2
\* The albums the catalog may hold.
MpAlbumCatalog == {
    [Name |-> "Fragile",           AlbumArtist |-> "Yes"],
    [Name |-> "Fragile",           AlbumArtist |-> "Yes X"],
    [Name |-> "Fragile - Live",    AlbumArtist |-> "Yes"],
    [Name |-> "Dark Side Of Moon", AlbumArtist |-> "Floyd"],
    [Name |-> "Dark Side Of Mars", AlbumArtist |-> "Floyd"],
    [Name |-> "Yes",               AlbumArtist |-> "Fragile"] }
\* The playlist names the catalog may hold.
MpPlaylistNames == {
    "Yes - Fragile", "yes  -  FRAGILE ", "Yes X - Fragile", "Yes XY - Fragile",
    "Yes - Fragile - Live", "Yes-Fragile", "Mixtape 2019", "Mixtape - 2019",
    "Floyd - Dark Side Of The Moon 7", "Floyd - Dark Side Of The Moon 73",
    "Fragile - Yes", " - " }

MpIdle ==
    /\ mpPc = "off" /\ mpName = "" /\ mpAlbums = <<>> /\ mpResult = <<>>

InitMp ==
    /\ mpPc = "idle"
    /\ mpName \in MpPlaylistNames
    /\ mpAlbums \in DistinctSeqs(MpAlbumCatalog, MaxAlbums)
    /\ mpResult = <<>>

\* matched = _match_playlist_to_album(name, albums)
MatchPlaylist ==
    /\ mpPc = "idle"
    /\ mpResult' = match_playlist_to_album(mpName, mpAlbums)
    /\ mpPc' = "matched"
    /\ UNCHANGED <<gpVars, mpName, mpAlbums, normVars, fdVars, junkVars, mergeVars,
                   plVars, arVars, cnVars>>

NextMp == MatchPlaylist

-----------------------------------------------------------------------------
(* scan_artist_duplicates and merge_selected_artist_pairs (src/app.py):     *)
(* the pairwise dedup tool and the Track-Level Merge Resolver.              *)
(* A raw artist is [Name, Id, ChildCount]; a track is [Id, Name].           *)

\* re.sub(r"[/\-...&+]", " ", n): the ASCII members of the class (the en and
\* em dash of the source are outside the model's alphabet).
RECURSIVE PunctToSpaceFrom(_, _)
PunctToSpaceFrom(s, i) ==
    IF i > Len(s) THEN ""
    ELSE (IF CharAt(s, i) \in {"/", "-", "&", "+"} THEN " " ELSE CharAt(s, i))
         \o PunctToSpaceFrom(s, i + 1)

\* re.sub(r"[^\w\s]", "", n)
RECURSIVE DropNonWordFrom(_, _)
DropNonWordFrom(s, i) ==
    IF i > Len(s) THEN ""
    ELSE (IF IsWord(CharAt(s, i)) \/ IsSpace(CharAt(s, i)) THEN CharAt(s, i) ELSE "")
         \o DropNonWordFrom(s, i + 1)

\* _normalize_for_dedup, lines 332-340
normalize_for_dedup(name) ==
    LET n  == Strip(Lower(name))
        n2 == IF Len(n) >= 5 /\ StartsWithAt(n, ", the", Len(n) - 4) THEN "the " \o SubSeq(n, 1, Len(n) - 5) ELSE n
    IN  Strip(CollapseSpace(DropNonWordFrom(PunctToSpaceFrom(n2, 1), 1)))

\* str(n) for n >= 0
RECURSIVE IntStr(_)
IntStr(n) ==
    IF n < 10 THEN CharAt(Digits, n + 1)
    ELSE IntStr(n \div 10) \o CharAt(Digits, (n % 10) + 1)

\* Lines 366 and 388: the label of a pair ("<->" stands for U+2194).
PairLabel(pair) ==
    pair[1].Name \o " (" \o IntStr(pair[1].ChildCount) \o " albums)  <->  "
        \o pair[2].Name \o " (" \o IntStr(pair[2].ChildCount) \o " albums)"

\* Lines 353-361: the inner loop of the scan for raw[i], from raw[j].
\* acc is [pairs, seen].
RECURSIVE ScanInner(_, _, _, _, _)
ScanInner(raw, threshold, i, j, acc) ==
    IF j > Len(raw) THEN acc
    ELSE LET a   == raw[i]
             b   == raw[j]
             key == {a.Id, b.Id}
             score == token_sort_ratio(normalize_for_dedup(a.Name),
                                       normalize_for_dedup(b.Name))
             nxt == IF key \in acc.seen THEN acc
                    ELSE IF RatGE(score, <<threshold, 1>>)
                         THEN [pairs |-> Append(acc.pairs, <<a, b>>),
                               seen  |-> acc.seen \cup {key}]
                         ELSE acc
         IN  IF Len(nxt.pairs) >= 0 THEN ScanInner(raw, threshold, i, j + 1, nxt) ELSE nxt

\* Lines 351-361
RECURSIVE ScanOuter(_, _, _, _)
ScanOuter(raw, threshold, i, acc) ==
    IF i > Len(raw) THEN acc.pairs
    ELSE ScanOuter(raw, threshold, i + 1, ScanInner(raw, threshold, i, i + 1, acc))

DuplicatePairs(raw, threshold) == ScanOuter(raw, threshold, 1, [pairs |-> <<>>, seen |-> {}])

\* Lines 392-394
Winner(pair, side) == IF side = "left" THEN pair[1] ELSE pair[2]
Loser(pair, side)  == IF side = "left" THEN pair[2] ELSE pair[1]

\* A key that keeps the track name as it is.
TrackKeyVerbatim(name) == name

\* Line 402 and 407: the key of a track name.
TrackKey(name) == Strip(Lower(name))

\* Lines 401-403: the keys of winner_track_map.
WinnerKeys(tracks) == {TrackKey(tracks[i].Name) : i \in 1..Len(tracks)}

\* Line 408: is the loser's track a duplicate of a winner's track?
IsDuplicateTrack(track, tracks) == TrackKey(track.Name) \in WinnerKeys(tracks)


MaxTracks == 2
\* The artists the catalog may hold, in the order the catalog lists them, and
\* the values of the tool's threshold slider (70..99).
MergeArtists == <<
    [Name |-> "Beatles",     ChildCount |-> 2],
    [Name |-> "The Beatles", ChildCount |-> 1],
    [Name |-> "The Beat",    ChildCount |-> 0] >>
MergeThresholds == {70, 80}
\* The tracks get_tracks_for_artist may return: for the loser any list of at
\* most MaxTracks distinct tracks, for the winner one of three lists.
TrackPool == {
    [Id |-> "t1", Name |-> "Song"],
    [Id |-> "t2", Name |-> "song "],
    [Id |-> "t3", Name |-> "Other"] }
LoserTrackLists  == DistinctSeqs(TrackPool, MaxTracks)
WinnerTrackLists == { <<>>,
                      << [Id |-> "t1", Name |-> "Song"] >>,
                      << [Id |-> "t1", Name |-> "Song"], [Id |-> "t3", Name |-> "Other"] >> }

\* The members of the sequence q at the indices in the set I, in order.
RECURSIVE Pick(_, _, _)
Pick(q, I, i) ==
    IF i > Len(q) THEN <<>>
    ELSE (IF i \in I THEN <<q[i]>> ELSE <<>>) \o Pick(q, I, i + 1)

\* jellyfin_client.get_all_artists_raw()
RawMergeArtists(q) ==
    [i \in 1..Len(q) |-> [Name |-> q[i].Name, Id |-> "a" \o IntStr(i),
                          ChildCount |-> q[i].ChildCount]]

\* The handler's locals when it is not running.
MergeLocalsClear ==
    /\ selected = {} /\ preferred_side = "left" /\ mPair = 0
    /\ winner_tracks = <<>> /\ loser_tracks = <<>> /\ mTrack = 0
    /\ deleted_dupes = 0 /\ reassigned = 0
    /\ merged_pairs = 0 /\ report = <<>> /\ errors = <<>> /\ requests = <<>>
    /\ retired = {}

MergeIdle ==
    /\ mPc = "off" /\ mRaw = <<>> /\ artist_duplicate_pairs = <<>>
    /\ MergeLocalsClear

InitMerge ==
    /\ mPc = "idle"
    /\ mRaw \in {RawMergeArtists(Pick(MergeArtists, I, 1)) :
                    I \in SUBSET (1..Len(MergeArtists))}
    /\ artist_duplicate_pairs = <<>>
    /\ MergeLocalsClear

\* The pair the handler's loop is at, its winner, loser and canonical name.
CurPair   == artist_duplicate_pairs[mPair]
CurWinner == Winner(CurPair, preferred_side)
CurLoser  == Loser(CurPair, preferred_side)

\* A request made to the catalog and whether it succeeded.
Request(op, id, arg, ok) == [op |-> op, id |-> id, arg |-> arg, ok |-> ok]

\* Lines 347-364: the scan succeeds and stores the pairs it found.
scan_artist_duplicates(threshold) ==
    /\ mPc = "idle"
    /\ artist_duplicate_pairs' = DuplicatePairs(mRaw, threshold)
    /\ UNCHANGED <<retired, mPc, mRaw, selected, preferred_side, mPair, winner_tracks,
                   loser_tracks, mTrack, deleted_dupes, reassigned, merged_pairs,
                   report, errors, requests>>
    /\ UNCHANGED <<gpVars, normVars, fdVars, junkVars, mpVars, plVars, arVars, cnVars>>

\* Lines 380-387: the handler is entered with a non-empty selection.
merge_begin(sel, side) ==
    /\ mPc = "idle"
    /\ sel # {}
    /\ selected' = sel
    /\ preferred_side' = side
    /\ merged_pairs' = 0 /\ report' = <<>> /\ errors' = <<>> /\ retired' = {}
    /\ mPair' = 1
    /\ mPc' = "pairs"
    /\ UNCHANGED <<mRaw, artist_duplicate_pairs, winner_tracks, loser_tracks, mTrack,
                   deleted_dupes, reassigned, requests>>
    /\ UNCHANGED <<gpVars, normVars, fdVars, junkVars, mpVars, plVars, arVars, cnVars>>

\* Lines 388-390: the pair's label is not selected.
merge_skip_pair ==
    /\ mPc = "pairs"
    /\ mPair <= Len(artist_duplicate_pairs)
    /\ PairLabel(CurPair) \notin selected
    /\ mPair' = mPair + 1
    /\ UNCHANGED <<retired, mPc, mRaw, artist_duplicate_pairs, selected, preferred_side,
                   winner_tracks, loser_tracks, mTrack, deleted_dupes, reassigned,
                   merged_pairs, report, errors, requests>>
    /\ UNCHANGED <<gpVars, normVars, fdVars, junkVars, mpVars, plVars, arVars, cnVars>>

\* Lines 397-405: both track lists are fetched.
merge_fetch_tracks(wt, lt) ==
    /\ mPc = "pairs"
    /\ mPair <= Len(artist_duplicate_pairs)
    /\ PairLabel(CurPair) \in selected
    /\ winner_tracks' = wt
    /\ loser_tracks' = lt
    /\ requests' = << Request("get_tracks_for_artist", CurWinner.Id, "", TRUE),
                      Request("get_tracks_for_artist", CurLoser.Id, "", TRUE) >>
    /\ deleted_dupes' = 0 /\ reassigned' = 0
    /\ mTrack' = 1
    /\ mPc' = "tracks"
    /\ UNCHANGED <<retired, mRaw, artist_duplicate_pairs, selected, preferred_side, mPair,
                   merged_pairs, report, errors>>
    /\ UNCHANGED <<gpVars, normVars, fdVars, junkVars, mpVars, plVars, arVars, cnVars>>

\* A fetch failure that ends the whole batch.
merge_fetch_failed_ending(winnerOk) ==
    /\ mPc = "pairs"
    /\ mPair <= Len(artist_duplicate_pairs)
    /\ PairLabel(CurPair) \in selected
    /\ requests' = IF winnerOk
                   THEN << Request("get_tracks_for_artist", CurWinner.Id, "", TRUE),
                           Request("get_tracks_for_artist", CurLoser.Id, "", FALSE) >>
                   ELSE << Request("get_tracks_for_artist", CurWinner.Id, "", FALSE) >>
    /\ errors' = Append(errors, CurPair[1].Name \o " <-> " \o CurPair[2].Name)
    /\ mPair' = Len(artist_duplicate_pairs) + 1
    /\ UNCHANGED <<retired, mPc, mRaw, artist_duplicate_pairs, selected, preferred_side,
                   winner_tracks, loser_tracks, mTrack, deleted_dupes, reassigned,
                   merged_pairs, report>>
    /\ UNCHANGED <<gpVars, normVars, fdVars, junkVars, mpVars, plVars, arVars, cnVars>>

\* Lines 397-398 and 439-440: fetching the winner's (winnerOk = FALSE) or the
\* loser's tracks raises; the pair is given up with one error.
merge_fetch_failed(winnerOk) ==
    /\ mPc = "pairs"
    /\ mPair <= Len(artist_duplicate_pairs)
    /\ PairLabel(CurPair) \in selected
    /\ requests' = IF winnerOk
                   THEN << Request("get_tracks_for_artist", CurWinner.Id, "", TRUE),
                           Request("get_tracks_for_artist", CurLoser.Id, "", FALSE) >>
                   ELSE << Request("get_tracks_for_artist", CurWinner.Id, "", FALSE) >>
    /\ errors' = Append(errors, CurPair[1].Name \o " <-> " \o CurPair[2].Name)
    /\ mPair' = mPair + 1
    /\ UNCHANGED <<retired, mPc, mRaw, artist_duplicate_pairs, selected, preferred_side,
                   winner_tracks, loser_tracks, mTrack, deleted_dupes, reassigned,
                   merged_pairs, report>>
    /\ UNCHANGED <<gpVars, normVars, fdVars, junkVars, mpVars, plVars, arVars, cnVars>>

\* A track loop without the inner try: a failed request is recorded and ends
\* the loop.
merge_track_until_failure(ok) ==
    /\ mPc = "tracks"
    /\ mTrack <= Len(loser_tracks)
    /\ LET track == loser_tracks[mTrack]
       IN  IF IsDuplicateTrack(track, winner_tracks)
           THEN /\ requests' = Append(requests, Request("delete_item", track.Id, "", ok))
                /\ deleted_dupes' = IF ok THEN deleted_dupes + 1 ELSE deleted_dupes
                /\ errors' = IF ok THEN errors
                             ELSE Append(errors, "Delete track '" \o track.Name \o "'")
                /\ UNCHANGED reassigned
           ELSE /\ requests' = Append(requests,
                        Request("update_track_artist", track.Id, CurWinner.Name, ok))
                /\ reassigned' = IF ok THEN reassigned + 1 ELSE reassigned
                /\ errors' = IF ok THEN errors
                             ELSE Append(errors, "Reassign track '" \o track.Name \o "'")
                /\ UNCHANGED deleted_dupes
    /\ mTrack' = IF ok THEN mTrack + 1 ELSE Len(loser_tracks) + 1
    /\ UNCHANGED <<retired, mPc, mRaw, artist_duplicate_pairs, selected, preferred_side, mPair,
                   winner_tracks, loser_tracks, merged_pairs, report>>
    /\ UNCHANGED <<gpVars, normVars, fdVars, junkVars, mpVars, plVars, arVars, cnVars>>

\* A loop iteration that counts the request whether or not it succeeded.
merge_track_counting_attempts(ok) ==
    /\ mPc = "tracks"
    /\ mTrack <= Len(loser_tracks)
    /\ LET track == loser_tracks[mTrack]
       IN  IF IsDuplicateTrack(track, winner_tracks)
           THEN /\ requests' = Append(requests, Request("delete_item", track.Id, "", ok))
                /\ deleted_dupes' = deleted_dupes + 1
                /\ errors' = IF ok THEN errors
                             ELSE Append(errors, "Delete track '" \o track.Name \o "'")
                /\ UNCHANGED reassigned
           ELSE /\ requests' = Append(requests,
                        Request("update_track_artist", track.Id, CurWinner.Name, ok))
                /\ reassigned' = reassigned + 1
                /\ errors' = IF ok THEN errors
                             ELSE Append(errors, "Reassign track '" \o track.Name \o "'")
                /\ UNCHANGED deleted_dupes
    /\ mTrack' = mTrack + 1
    /\ UNCHANGED <<retired, mPc, mRaw, artist_duplicate_pairs, selected, preferred_side, mPair,
                   winner_tracks, loser_tracks, merged_pairs, report>>
    /\ UNCHANGED <<gpVars, normVars, fdVars, junkVars, mpVars, plVars, arVars, cnVars>>

\* Lines 406-421: one iteration of the loop over the loser's tracks; ok is
\* whether the catalog request succeeds.
merge_track(ok) ==
    /\ mPc = "tracks"
    /\ mTrack <= Len(loser_tracks)
    /\ LET track == loser_tracks[mTrack]
       IN  IF IsDuplicateTrack(track, winner_tracks)
           THEN /\ requests' = Append(requests, Request("delete_item", track.Id, "", ok))
                /\ deleted_dupes' = IF ok THEN deleted_dupes + 1 ELSE deleted_dupes
                /\ errors' = IF ok THEN errors
                             ELSE Append(errors, "Delete track '" \o track.Name \o "'")
                /\ UNCHANGED reassigned
           ELSE /\ requests' = Append(requests,
                        Request("update_track_artist", track.Id, CurWinner.Name, ok))
                /\ reassigned' = IF ok THEN reassigned + 1 ELSE reassigned
                /\ errors' = IF ok THEN errors
                             ELSE Append(errors, "Reassign track '" \o track.Name \o "'")
                /\ UNCHANGED deleted_dupes
    /\ mTrack' = mTrack + 1
    /\ UNCHANGED <<retired, mPc, mRaw, artist_duplicate_pairs, selected, preferred_side, mPair,
                   winner_tracks, loser_tracks, merged_pairs, report>>
    /\ UNCHANGED <<gpVars, normVars, fdVars, junkVars, mpVars, plVars, arVars, cnVars>>

\* A rename step that records its failure like the other steps do.
merge_rename_loser_recorded(ok) ==
    /\ mPc = "tracks"
    /\ mTrack > Len(loser_tracks)
    /\ requests' = Append(requests, Request("rename_artist", CurLoser.Id, CurWinner.Name, ok))
    /\ errors' = IF ok THEN errors
                 ELSE Append(errors, "Rename artist '" \o CurLoser.Name \o "'")
    /\ mPc' = "retire"
    /\ UNCHANGED <<retired, mRaw, artist_duplicate_pairs, selected, preferred_side, mPair,
                   winner_tracks, loser_tracks, mTrack, deleted_dupes, reassigned,
                   merged_pairs, report>>
    /\ UNCHANGED <<gpVars, normVars, fdVars, junkVars, mpVars, plVars, arVars, cnVars>>

\* Lines 424-427: the loser is renamed; a failure is swallowed.
merge_rename_loser(ok) ==
    /\ mPc = "tracks"
    /\ mTrack > Len(loser_tracks)
    /\ requests' = Append(requests, Request("rename_artist", CurLoser.Id, CurWinner.Name, ok))
    /\ mPc' = "retire"
    /\ UNCHANGED <<retired, mRaw, artist_duplicate_pairs, selected, preferred_side, mPair,
                   winner_tracks, loser_tracks, mTrack, deleted_dupes, reassigned,
                   merged_pairs, report, errors>>
    /\ UNCHANGED <<gpVars, normVars, fdVars, junkVars, mpVars, plVars, arVars, cnVars>>

\* Lines 428-431: the loser is deleted; a failure is recorded.
merge_delete_loser(ok) ==
    /\ mPc = "retire"
    /\ requests' = Append(requests, Request("delete_item", CurLoser.Id, "", ok))
    /\ errors' = IF ok THEN errors
                 ELSE Append(errors, "Delete artist '" \o CurLoser.Name \o "'")
    /\ retired' = IF ok THEN retired \cup {CurLoser.Id} ELSE retired
    /\ mPc' = "report"
    /\ UNCHANGED <<mRaw, artist_duplicate_pairs, selected, preferred_side, mPair,
                   winner_tracks, loser_tracks, mTrack, deleted_dupes, reassigned,
                   merged_pairs, report>>
    /\ UNCHANGED <<gpVars, normVars, fdVars, junkVars, mpVars, plVars, arVars, cnVars>>

\* Lines 433-437: the pair is reported and counted, and the loop goes on; the
\* locals of the iteration are dead from here on.
merge_report_pair ==
    /\ mPc = "report"
    /\ report' = Append(report, [loser |-> CurLoser.Name, canonical |-> CurWinner.Name,
                                 deleted_dupes |-> deleted_dupes,
                                 reassigned |-> reassigned])
    /\ merged_pairs' = merged_pairs + 1
    /\ mPair' = mPair + 1
    /\ mPc' = "pairs"
    /\ winner_tracks' = <<>> /\ loser_tracks' = <<>> /\ mTrack' = 0
    /\ deleted_dupes' = 0 /\ reassigned' = 0 /\ requests' = <<>>
    /\ UNCHANGED <<retired, mRaw, artist_duplicate_pairs, selected, preferred_side, errors>>
    /\ UNCHANGED <<gpVars, normVars, fdVars, junkVars, mpVars, plVars, arVars, cnVars>>

\* Lines 442-446: the loop is over and the message is returned; the handler's
\* locals are gone.
merge_finish ==
    /\ mPc = "pairs"
    /\ mPair > Len(artist_duplicate_pairs)
    /\ mPc' = "idle"
    /\ selected' = {} /\ preferred_side' = "left" /\ mPair' = 0
    /\ winner_tracks' = <<>> /\ loser_tracks' = <<>> /\ mTrack' = 0
    /\ deleted_dupes' = 0 /\ reassigned' = 0
    /\ merged_pairs' = 0 /\ report' = <<>> /\ errors' = <<>> /\ requests' = <<>>
    /\ retired' = {}
    /\ UNCHANGED <<mRaw, artist_duplicate_pairs>>
    /\ UNCHANGED <<gpVars, normVars, fdVars, junkVars, mpVars, plVars, arVars, cnVars>>

\* The labels the pair list offers for selection (lines 365-368).
PairLabels == {PairLabel(artist_duplicate_pairs[i]) : i \in 1..Len(artist_duplicate_pairs)}

NextMerge ==
    \/ \E threshold \in MergeThresholds : scan_artist_duplicates(threshold)
    \/ \E sel \in SUBSET PairLabels, side \in {"left", "right"} : merge_begin(sel, side)
    \/ merge_skip_pair
    \/ \E wt \in WinnerTrackLists, lt \in LoserTrackLists : merge_fetch_tracks(wt, lt)
    \/ \E winnerOk \in BOOLEAN : merge_fetch_failed(winnerOk)
    \/ \E ok \in BOOLEAN : merge_track(ok)
    \/ \E ok \in BOOLEAN : merge_rename_loser(ok)
    \/ \E ok \in BOOLEAN : merge_delete_loser(ok)
    \/ merge_report_pair
    \/ merge_finish

-----------------------------------------------------------------------------
(* scan_bogus_playlists and delete_selected_playlists (src/app.py).         *)
(* A playlist is [Name, Id, ChildCount, Path], Path = "" when it has none;  *)
(* a scanned playlist also carries matched, the display string of the album *)
(* it matched ("" when none).                                               *)

\* Join the non-empty parts of a label with "  |  ".
RECURSIVE JoinParts(_)
JoinParts(parts) ==
    IF parts = <<>> THEN ""
    ELSE IF Len(parts) = 1 THEN parts[1]
    ELSE parts[1] \o "  |  " \o JoinParts(Tail(parts))

\* A label that leaves the source path out.
playlist_label_without_path(p) ==
    JoinParts(<<p.Name>>
        \o (IF p.matched # "" THEN <<"album exists: " \o p.matched>> ELSE <<>>)
        \o (IF p.ChildCount # 0
            THEN <<IntStr(p.ChildCount) \o " track" \o (IF p.ChildCount # 1 THEN "s" ELSE "")>>
            ELSE <<>>))

\* _playlist_label (the check mark U+2705 before "album exists" is left out).
playlist_label(p) ==
    JoinParts(<<p.Name>>
        \o (IF p.matched # "" THEN <<"album exists: " \o p.matched>> ELSE <<>>)
        \o (IF p.ChildCount # 0
            THEN <<IntStr(p.ChildCount) \o " track" \o (IF p.ChildCount # 1 THEN "s" ELSE "")>>
            ELSE <<>>)
        \o (IF p.Path # "" THEN <<"source: " \o p.Path>> ELSE <<>>))

\* Lines 201-205: the playlist with the outcome of the album match.
Scanned(p, albums) ==
    LET matched == match_playlist_to_album(p.Name, albums)
    IN  [Name |-> p.Name, Id |-> p.Id, ChildCount |-> p.ChildCount, Path |-> p.Path,
         matched |-> IF matched = <<>> THEN "" ELSE matched[1]]

\* Lines 197-200: the playlists whose name has the separator, scanned.
RECURSIVE AlbumNamed(_, _)
AlbumNamed(playlists, albums) ==
    IF playlists = <<>> THEN <<>>
    ELSE (IF Contains(Head(playlists).Name, " - ")
          THEN <<Scanned(Head(playlists), albums)>> ELSE <<>>)
         \o AlbumNamed(Tail(playlists), albums)

\* Lines 195-207: the two lists the scan builds.
Confirmed(playlists, albums) ==
    SelectSeq(AlbumNamed(playlists, albums), LAMBDA p : p.matched # "")
Unconfirmed(playlists, albums) ==
    SelectSeq(AlbumNamed(playlists, albums), LAMBDA p : p.matched = "")

Labels(ps) == [i \in 1..Len(ps) |-> playlist_label(ps[i])]

\* A scan that pre-selects every playlist it lists.
PreselectedAll(confirmed, unconfirmed) == Labels(confirmed \o unconfirmed)

\* Lines 214-215: only the playlists whose album was found are pre-selected.
Preselected(confirmed, unconfirmed) == Labels(confirmed)

\* The handlers of the playlist tool are not running.
PlReady == plPc \in {"idle", "scanned", "failed"}

MaxPlaylists == 3
\* The playlists and albums the catalog may hold; two playlists may differ in
\* nothing but their id.
PlaylistPool == {
    [Name |-> "Yes - Fragile", Id |-> "p1", ChildCount |-> 9, Path |-> "/m/yes.m3u"],
    [Name |-> "Yes - Relayer", Id |-> "p2", ChildCount |-> 1, Path |-> ""],
    [Name |-> "Mixtape 2019",  Id |-> "p3", ChildCount |-> 0, Path |-> "/m/mix.m3u"],
    [Name |-> "Yes - Fragile", Id |-> "p4", ChildCount |-> 9, Path |-> "/m/yes.m3u"],
    [Name |-> "Yes - Drama",   Id |-> "p5", ChildCount |-> 0, Path |-> "/m/drama.m3u"] }
PlaylistAlbums == { <<>>, << [Name |-> "Fragile", AlbumArtist |-> "Yes"] >> }
\* The most labels one selection holds.
MaxSelected == 2
\* A label the selection may hold that no scanned playlist has.
StaleLabel == "Yes - Tormato"

\* The handler's locals when it is not running.
PlLocalsClear ==
    /\ pl_selected = <<>> /\ plIdx = 0 /\ pl_deleted = 0
    /\ pl_errors = <<>> /\ m3u_paths = <<>> /\ pl_requests = <<>>

PlIdle ==
    /\ plPc = "off" /\ plPlaylists = <<>> /\ plAlbums = <<>> /\ bogus_playlists = <<>>
    /\ pl_choices = <<>> /\ pl_preselected = <<>>
    /\ PlLocalsClear

InitPl ==
    /\ plPc = "idle"
    /\ plPlaylists \in DistinctSeqs(PlaylistPool, MaxPlaylists)
    /\ plAlbums \in PlaylistAlbums
    /\ bogus_playlists = <<>>
    /\ pl_choices = <<>> /\ pl_preselected = <<>>
    /\ PlLocalsClear

\* Lines 191-224: the scan succeeds.
scan_bogus_playlists ==
    /\ PlReady
    /\ LET confirmed   == Confirmed(plPlaylists, plAlbums)
           unconfirmed == Unconfirmed(plPlaylists, plAlbums)
       IN  /\ bogus_playlists' = confirmed \o unconfirmed
           /\ pl_choices' = Labels(confirmed \o unconfirmed)
           /\ pl_preselected' = Preselected(confirmed, unconfirmed)
    /\ plPc' = "scanned"
    /\ UNCHANGED <<plPlaylists, plAlbums, pl_selected, plIdx, pl_deleted,
                   pl_errors, m3u_paths, pl_requests>>
    /\ UNCHANGED <<gpVars, normVars, fdVars, junkVars, mpVars, arVars, cnVars, mergeVars>>

\* Lines 225-226: a catalog request raises; the stored playlists stay.
scan_bogus_playlists_failed ==
    /\ PlReady
    /\ pl_choices' = <<>>
    /\ pl_preselected' = <<>>
    /\ plPc' = "failed"
    /\ UNCHANGED <<plPlaylists, plAlbums, bogus_playlists, pl_selected, plIdx,
                   pl_deleted, pl_errors, m3u_paths, pl_requests>>
    /\ UNCHANGED <<gpVars, normVars, fdVars, junkVars, mpVars, arVars, cnVars, mergeVars>>

\* Lines 235 and 238: label_to_playlist.get(label): the last stored playlist with the
\* label, <<>> when there is none.
label_to_playlist(label) ==
    LET at == {i \in 1..Len(bogus_playlists) : playlist_label(bogus_playlists[i]) = label}
    IN  IF at = {} THEN <<>>
        ELSE << bogus_playlists[CHOOSE i \in at : \A k \in at : k <= i] >>

\* Lines 230-236: the handler is entered with a non-empty selection.
delete_playlists_begin(sel) ==
    /\ PlReady
    /\ sel # <<>>
    /\ pl_selected' = sel
    /\ plIdx' = 1
    /\ pl_deleted' = 0 /\ pl_errors' = <<>> /\ m3u_paths' = <<>> /\ pl_requests' = <<>>
    /\ plPc' = "deleting"
    /\ UNCHANGED <<plPlaylists, plAlbums, bogus_playlists, pl_choices, pl_preselected>>
    /\ UNCHANGED <<gpVars, normVars, fdVars, junkVars, mpVars, arVars, cnVars, mergeVars>>

\* Lines 238-240: the label is of no stored playlist.
delete_playlists_skip ==
    /\ plPc = "deleting"
    /\ plIdx <= Len(pl_selected)
    /\ label_to_playlist(pl_selected[plIdx]) = <<>>
    /\ plIdx' = plIdx + 1
    /\ UNCHANGED <<plPc, plPlaylists, plAlbums, bogus_playlists, pl_choices, pl_preselected,
                   pl_selected, pl_deleted, pl_errors, m3u_paths, pl_requests>>
    /\ UNCHANGED <<gpVars, normVars, fdVars, junkVars, mpVars, arVars, cnVars, mergeVars>>

\* Lines 241-247: the playlist of the label is deleted (ok) or the request
\* raises; a deleted playlist is gone from the catalog.
delete_playlists_step(ok) ==
    /\ plPc = "deleting"
    /\ plIdx <= Len(pl_selected)
    /\ label_to_playlist(pl_selected[plIdx]) # <<>>
    /\ LET p == label_to_playlist(pl_selected[plIdx])[1]
       IN  /\ pl_requests' = Append(pl_requests, Request("delete_item", p.Id, "", ok))
           /\ pl_deleted' = IF ok THEN pl_deleted + 1 ELSE pl_deleted
           /\ m3u_paths' = IF ok /\ p.Path # "" THEN Append(m3u_paths, p.Path) ELSE m3u_paths
           /\ pl_errors' = IF ok THEN pl_errors ELSE Append(pl_errors, p.Name)
           /\ plPlaylists' = IF ok THEN SelectSeq(plPlaylists, LAMBDA x : x.Id # p.Id)
                             ELSE plPlaylists
    /\ plIdx' = plIdx + 1
    /\ UNCHANGED <<plPc, plAlbums, bogus_playlists, pl_choices, pl_preselected, pl_selected>>
    /\ UNCHANGED <<gpVars, normVars, fdVars, junkVars, mpVars, arVars, cnVars, mergeVars>>

\* Lines 248-260: the loop is over and the message is returned; the handler's
\* locals are gone.
delete_playlists_finish ==
    /\ plPc = "deleting"
    /\ plIdx > Len(pl_selected)
    /\ plPc' = "idle"
    /\ pl_selected' = <<>> /\ plIdx' = 0 /\ pl_deleted' = 0
    /\ pl_errors' = <<>> /\ m3u_paths' = <<>> /\ pl_requests' = <<>>
    /\ UNCHANGED <<plPlaylists, plAlbums, bogus_playlists, pl_choices, pl_preselected>>
    /\ UNCHANGED <<gpVars, normVars, fdVars, junkVars, mpVars, arVars, cnVars, mergeVars>>

\* The labels a selection may hold: those of the choices shown, and a stale one.
SelectableLabels == {pl_choices[i] : i \in 1..Len(pl_choices)} \cup {StaleLabel}

NextPl ==
    \/ scan_bogus_playlists
    \/ scan_bogus_playlists_failed
    \/ \E sel \in DistinctSeqs(SelectableLabels, MaxSelected) : delete_playlists_begin(sel)
    \/ delete_playlists_skip
    \/ \E ok \in BOOLEAN : delete_playlists_step(ok)
    \/ delete_playlists_finish

-----------------------------------------------------------------------------
(* apply_rename (src/app.py) and JellyfinClient.rename_artist.               *)

\* Catalogs of the rename tool, each in the order the catalog lists it.
RenameCatalogs == {
    << [title |-> "The Band", track_count |-> 2], [title |-> "Band", track_count |-> 1] >>,
    << [title |-> "Band",     track_count |-> 1], [title |-> "Bland", track_count |-> 1],
       [title |-> "The Band", track_count |-> 2] >>,
    << [title |-> "AC/DC",    track_count |-> 2], [title |-> "AC-DC", track_count |-> 1],
       [title |-> "ACDC",     track_count |-> 1] >> }
\* Texts of the "Preferred Name" box besides the suggested canonical name.
TypedNames == {"  ", " Band "}

\* Lines 110-116 of src/jellyfin_client.py: the cached ArtistInfo of the item
\* gets the new title; the groups hold the same objects.
RenameIn(artists, item_id, new_name) ==
    [i \in 1..Len(artists) |->
        IF artists[i].item_id = item_id THEN [artists[i] EXCEPT !.title = new_name]
        ELSE artists[i]]

\* Line 131: the group on display (current_group_index counts from 0).
CurrentGroup == duplicate_groups[current_group_index + 1]

ArLocalsClear ==
    /\ preferred_name = "" /\ arIdx = 0 /\ renamed = 0
    /\ ar_requests = <<>> /\ ar_result = ""

ArIdle == arPc = "off" /\ ArLocalsClear

InitRename ==
    /\ fdPc = "idle"
    /\ fdArtists \in {ArtistList(q) : q \in RenameCatalogs}
    /\ fdThreshold = 0
    /\ duplicate_groups = <<>>
    /\ current_group_index = 0
    /\ arPc = "idle"
    /\ ArLocalsClear

\* Lines 126-129: there is no group on display, or the name is blank.
apply_rename_rejected(name) ==
    /\ arPc = "idle"
    /\ \/ duplicate_groups = <<>>
       \/ current_group_index >= Len(duplicate_groups)
       \/ Strip(name) = ""
    /\ ar_result' = IF duplicate_groups = <<>> \/ current_group_index >= Len(duplicate_groups)
                    THEN "No group selected" ELSE "Enter a preferred name"
    /\ preferred_name' = "" /\ arIdx' = 0 /\ renamed' = 0 /\ ar_requests' = <<>>
    /\ arPc' = "done"
    /\ UNCHANGED <<gpVars, fdVars, normVars, junkVars, mpVars, plVars, cnVars, mergeVars>>

\* Lines 131-135: the handler enters its loop over the artists of the group.
apply_rename_begin(name) ==
    /\ arPc = "idle"
    /\ duplicate_groups # <<>>
    /\ current_group_index < Len(duplicate_groups)
    /\ Strip(name) # ""
    /\ preferred_name' = Strip(name)
    /\ arIdx' = 1 /\ renamed' = 0 /\ ar_requests' = <<>> /\ ar_result' = ""
    /\ arPc' = "renaming"
    /\ UNCHANGED <<gpVars, fdVars, normVars, junkVars, mpVars, plVars, cnVars, mergeVars>>

\* Line 137: the artist already has the preferred name.
apply_rename_skip ==
    /\ arPc = "renaming"
    /\ arIdx <= Len(CurrentGroup.artists)
    /\ CurrentGroup.artists[arIdx].title = preferred_name
    /\ arIdx' = arIdx + 1
    /\ UNCHANGED <<arPc, preferred_name, renamed, ar_requests, ar_result>>
    /\ UNCHANGED <<gpVars, fdVars, normVars, junkVars, mpVars, plVars, cnVars, mergeVars>>

\* Lines 138-139 and 141-142: the artist is renamed (ok), or the request
\* raises: the exception leaves the loop and the handler returns.
apply_rename_step(ok) ==
    /\ arPc = "renaming"
    /\ arIdx <= Len(CurrentGroup.artists)
    /\ CurrentGroup.artists[arIdx].title # preferred_name
    /\ LET item_id == CurrentGroup.artists[arIdx].item_id
       IN  /\ ar_requests' = Append(ar_requests,
                                    Request("rename_artist", item_id, preferred_name, ok))
           /\ IF ok
              THEN /\ renamed' = renamed + 1
                   /\ arIdx' = arIdx + 1
                   /\ fdArtists' = RenameIn(fdArtists, item_id, preferred_name)
                   /\ duplicate_groups' =
                          [g \in 1..Len(duplicate_groups) |->
                              [duplicate_groups[g] EXCEPT
                                  !.artists = RenameIn(@, item_id, preferred_name)]]
                   /\ UNCHANGED <<arPc, ar_result>>
              ELSE /\ ar_result' = "Rename failed"
                   /\ arPc' = "done"
                   /\ UNCHANGED <<renamed, arIdx, fdArtists, duplicate_groups>>
    /\ UNCHANGED <<preferred_name, fdPc, fdThreshold, current_group_index>>
    /\ UNCHANGED <<gpVars, normVars, junkVars, mpVars, plVars, cnVars, mergeVars>>

\* Line 140: the loop is over and the count is returned.
apply_rename_finish ==
    /\ arPc = "renaming"
    /\ arIdx > Len(CurrentGroup.artists)
    /\ ar_result' = "Renamed " \o IntStr(renamed) \o " artists to '" \o preferred_name \o "'"
    /\ arPc' = "done"
    /\ UNCHANGED <<preferred_name, arIdx, renamed, ar_requests>>
    /\ UNCHANGED <<gpVars, fdVars, normVars, junkVars, mpVars, plVars, cnVars, mergeVars>>

\* The handler has returned its message; its locals are gone.
apply_rename_return ==
    /\ arPc = "done"
    /\ arPc' = "idle"
    /\ preferred_name' = "" /\ arIdx' = 0 /\ renamed' = 0
    /\ ar_requests' = <<>> /\ ar_result' = ""
    /\ UNCHANGED <<gpVars, fdVars, normVars, junkVars, mpVars, plVars, cnVars, mergeVars>>

\* The texts the box may hold when "Apply" is pressed.
BoxTexts ==
    TypedNames \cup (IF duplicate_groups # <<>> /\ current_group_index < Len(duplicate_groups)
                     THEN {CurrentGroup.canonical_name} ELSE {})

NextRename ==
    \/ NextFd
    \/ next_group
    \/ prev_group
    \/ \E name \in BoxTexts : apply_rename_rejected(name)
    \/ \E name \in BoxTexts : apply_rename_begin(name)
    \/ apply_rename_skip
    \/ \E ok \in BOOLEAN : apply_rename_step(ok)
    \/ apply_rename_finish
    \/ apply_rename_return

-----------------------------------------------------------------------------
(* suggest_canonical_name on lists of names.                                *)

MaxNames == 2
\* The names the lists are made of.
CanonicalNames == {
    "the rolling stones", "The Rolling Stones", "THE ROLLING STONES",
    "Stones, The Rolling", "Ab,Cd", "xy", "yz", "Yz", "Simon and the Band",
    "Simon & The Band", "simon and theband" }

CnIdle == cnPc = "off" /\ cnNames = <<>> /\ cnResult = ""

InitCn ==
    /\ cnPc = "idle"
    /\ cnNames \in DistinctSeqs(CanonicalNames, MaxNames)
    /\ cnResult = ""

SuggestCanonicalName ==
    /\ cnPc = "idle"
    /\ cnResult' = suggest_canonical_name(cnNames)
    /\ cnPc' = "done"
    /\ UNCHANGED <<gpVars, cnNames, normVars, fdVars, junkVars, mpVars, plVars, arVars, mergeVars>>

NextCn == SuggestCanonicalName

-----------------------------------------------------------------------------
(* generate_playlist_preview and save_playlist (src/app.py). The text of    *)
(* the preview is not kept; last_preview records how the most recent        *)
(* preview call ended and what it matched.                                  *)

\* str.replace(pat, repl): the occurrences are replaced from left to right.
RECURSIVE ReplaceFrom(_, _, _, _)
ReplaceFrom(s, pat, repl, i) ==
    IF i > Len(s) THEN ""
    ELSE IF StartsWithAt(s, pat, i) THEN repl \o ReplaceFrom(s, pat, repl, i + Len(pat))
    ELSE CharAt(s, i) \o ReplaceFrom(s, pat, repl, i + 1)

Replace(s, pat, repl) == ReplaceFrom(s, pat, repl, 1)

\* str.split(","): the parts between the commas, empty parts included.
RECURSIVE SplitCommaFrom(_, _)
SplitCommaFrom(s, i) ==
    LET j == IndexOfCharFrom(s, ",", i)
    IN  IF j = 0 THEN << SubSeq(s, i, Len(s)) >>
        ELSE << SubSeq(s, i, j - 1) >> \o SplitCommaFrom(s, j + 1)

\* Lines 521-525: the artist names of the input, stripped, blanks dropped.
ArtistNames(artist_input) ==
    LET parts == SplitCommaFrom(Replace(Replace(artist_input, " and ", ","), " & ", ","), 1)
    IN  SelectSeq([i \in 1..Len(parts) |-> Strip(parts[i])], LAMBDA name : name # "")

\* int(s) of a string of digits.
RECURSIVE ToInt(_)
ToInt(s) ==
    IF s = "" THEN 0
    ELSE 10 * ToInt(SubSeq(s, 1, Len(s) - 1))
            + (IndexOfCharFrom(Digits, CharAt(s, Len(s)), 1) - 1)

\* Lines 531-534: the first and last year of the decade filter.
decade_start(era) == IF era # "" /\ era # "Any era" THEN ToInt(SubSeq(era, 1, 4)) ELSE 0
decade_end(era)   == IF era # "" /\ era # "Any era" THEN decade_start(era) + 9 ELSE 9999

\* Lines 543-544: the decade filter on one artist's tracks.
DecadeFilter(tracks, era) ==
    IF era # "Any era"
    THEN SelectSeq(tracks, LAMBDA t : /\ decade_start(era) <= t.release_year
                                      /\ t.release_year <= decade_end(era))
    ELSE tracks

\* list.sort(key=...): the place of the j-th element in the stable order of
\* the keys, and the list in that order.
Rank(keys, j) ==
    1 + Cardinality({m \in 1..Len(keys) :
                        keys[m] < keys[j] \/ (keys[m] = keys[j] /\ m < j)})

StableSort(s, keys) ==
    [i \in 1..Len(s) |-> s[CHOOSE j \in 1..Len(s) : Rank(keys, j) = i]]

\* random.shuffle: every order of the list.
Shuffles(s) ==
    {[i \in 1..Len(s) |-> s[p[i]]] : p \in Permutations(1..Len(s))}

\* Lines 549-559: the orders the track source may give the list.
Orders(tracks, source) ==
    CASE source = "top" ->
            {StableSort(tracks, [i \in 1..Len(tracks) |-> 0 - tracks[i].popularity])}
      [] source = "deep" ->
            {StableSort(tracks, [i \in 1..Len(tracks) |-> tracks[i].popularity])}
      [] source = "chrono" ->
            {StableSort(tracks, [i \in 1..Len(tracks) |-> tracks[i].release_year])}
      [] source = "recent" ->
            {StableSort(tracks, [i \in 1..Len(tracks) |-> 0 - tracks[i].release_year])}
      [] source = "shuffle" -> Shuffles(tracks)
      [] OTHER -> {tracks}

\* " & ".join(artists)
RECURSIVE JoinAmp(_)
JoinAmp(artists) ==
    IF artists = <<>> THEN ""
    ELSE IF Len(artists) = 1 THEN artists[1]
    ELSE artists[1] \o " & " \o JoinAmp(Tail(artists))

\* Lines 594-599.
build_playlist_name(artists, style) ==
    IF style = "experience" THEN "The " \o JoinAmp(artists) \o " Experience"
    ELSE IF style = "bangers" THEN "Certified " \o JoinAmp(artists) \o " Bangers"
    ELSE "Why " \o JoinAmp(artists) \o " Slaps"

\* The most tracks one get_top_tracks answer holds, and the highest track
\* count asked for.
MaxSpotify == 2
MaxCount == 2

\* The texts of the artist box, the name styles, track sources and eras.
ArtistInputs   == {"", " & ", "Yes", "Yes and Rush,"}
PlaylistStyles == {"slaps", "bangers", "experience"}
TrackSources   == {"top", "deep", "chrono", "recent", "shuffle"}
Decades        == {"Any era", "1970s"}

\* The tracks Spotify knows of an artist.
SpotifyTracks(artist_name) ==
    IF artist_name = "Yes"
    THEN { [name |-> "Roundabout", popularity |-> 70, release_year |-> 1971],
           [name |-> "Owner",      popularity |-> 80, release_year |-> 1983] }
    ELSE IF artist_name = "Rush"
    THEN { [name |-> "Limelight",  popularity |-> 70, release_year |-> 1981] }
    ELSE {}

\* The answers of get_top_tracks: tracks of the artist, most popular first.
TopTrackAnswers(artist_name) ==
    {q \in DistinctSeqs(SpotifyTracks(artist_name), MaxSpotify) :
        \A i \in 1..(Len(q) - 1) : q[i].popularity >= q[i + 1].popularity}

\* One answer per artist name.
AnswersFor(names) ==
    {f \in [1..Len(names) ->
              UNION {TopTrackAnswers(names[i]) : i \in 1..Len(names)}] :
        \A i \in 1..Len(names) : f[i] \in TopTrackAnswers(names[i])}

\* Lines 541-547: the filtered answers one after the other.
RECURSIVE Concat(_, _, _)
Concat(answers, era, i) ==
    IF i > Len(answers) THEN <<>>
    ELSE DecadeFilter(answers[i], era) \o Concat(answers, era, i + 1)

\* The library's tracks and what find_track answers for a track name: no
\* track, or a track of that name.
JellyfinTracks == { [Name |-> "Roundabout", Id |-> "j1"],
                    [Name |-> "Owner",      Id |-> "j2"],
                    [Name |-> "Limelight",  Id |-> "j3"] }
FindTrackAnswers(track_name) ==
    {<<>>} \cup {<<t>> : t \in {t \in JellyfinTracks : t.Name = track_name}}

\* How a preview call ended: not yet, or with one of the four returns.
Preview(outcome, count, name, ids, after) ==
    [outcome |-> outcome, track_count |-> count, name |-> name, track_ids |-> ids,
     after_ok |-> after]

\* Whether a preview has succeeded up to and including the last one.
SomePreviewOk == last_preview.after_ok \/ last_preview.outcome = "ok"

GpLocalsClear ==
    /\ artist_names = <<>> /\ playlist_style = "" /\ track_count = 0
    /\ track_source = "" /\ decade = ""
    /\ all_spotify_tracks = <<>> /\ gpIdx = 0 /\ matched_track_ids = <<>>

GpIdle ==
    /\ gpPc = "off" /\ spotify_client = FALSE /\ GpLocalsClear
    /\ pending_playlist = <<>>
    /\ last_preview = Preview("none", 0, "", <<>>, FALSE)
    /\ create_requests = <<>> /\ save_status = ""

InitGp ==
    /\ gpPc = "idle" /\ spotify_client \in BOOLEAN /\ GpLocalsClear
    /\ pending_playlist = <<>>
    /\ last_preview = Preview("none", 0, "", <<>>, FALSE)
    /\ create_requests = <<>> /\ save_status = ""

\* Lines 55-66: the Spotify client is set (ok) or, when the connection fails,
\* unset.
connect_spotify(ok) ==
    /\ gpPc = "idle"
    /\ spotify_client' = ok
    /\ UNCHANGED <<gpPc, artist_names, playlist_style, track_count, track_source, decade,
                   all_spotify_tracks,
                   gpIdx, matched_track_ids, pending_playlist, last_preview,
                   create_requests, save_status>>
    /\ UNCHANGED <<normVars, fdVars, junkVars, mpVars, plVars, arVars, cnVars, mergeVars>>

\* A rejected call that leaves the pending playlist of an earlier preview.
generate_preview_rejected_keeping(artist_input) ==
    /\ gpPc = "idle"
    /\ ~spotify_client \/ artist_input = "" \/ ArtistNames(artist_input) = <<>>
    /\ last_preview' = Preview("rejected", 0, "", <<>>, SomePreviewOk)
    /\ create_requests' = <<>> /\ save_status' = ""
    /\ UNCHANGED <<gpPc, spotify_client, artist_names, playlist_style, track_count,
                   track_source, decade, all_spotify_tracks, gpIdx, matched_track_ids, pending_playlist>>
    /\ UNCHANGED <<normVars, fdVars, junkVars, mpVars, plVars, arVars, cnVars, mergeVars>>

\* Lines 511-528: the pending playlist is dropped, then the call is rejected
\* for a missing Spotify client or an input without an artist name.
generate_preview_rejected(artist_input) ==
    /\ gpPc = "idle"
    /\ ~spotify_client \/ artist_input = "" \/ ArtistNames(artist_input) = <<>>
    /\ pending_playlist' = <<>>
    /\ last_preview' = Preview("rejected", 0, "", <<>>, SomePreviewOk)
    /\ create_requests' = <<>> /\ save_status' = ""
    /\ UNCHANGED <<gpPc, spotify_client, artist_names, playlist_style, track_count,
                   track_source, decade, all_spotify_tracks, gpIdx, matched_track_ids>>
    /\ UNCHANGED <<normVars, fdVars, junkVars, mpVars, plVars, arVars, cnVars, mergeVars>>

\* Lines 511-534: the pending playlist is dropped and the call is accepted.
generate_preview_begin(artist_input, style, count, source, era) ==
    /\ gpPc = "idle"
    /\ spotify_client /\ artist_input # "" /\ ArtistNames(artist_input) # <<>>
    /\ pending_playlist' = <<>>
    /\ artist_names' = ArtistNames(artist_input)
    /\ playlist_style' = style
    /\ track_count' = count
    /\ track_source' = source
    /\ decade' = era
    /\ last_preview' = Preview("running", 0, "", <<>>, SomePreviewOk)
    /\ create_requests' = <<>> /\ save_status' = ""
    /\ gpPc' = "fetching"
    /\ UNCHANGED <<spotify_client, all_spotify_tracks, gpIdx, matched_track_ids>>
    /\ UNCHANGED <<normVars, fdVars, junkVars, mpVars, plVars, arVars, cnVars, mergeVars>>

\* Lines 536-562: the tracks of every artist are fetched, filtered by decade
\* and put in the order of the track source.
generate_preview_fetch ==
    /\ gpPc = "fetching"
    /\ \E answers \in AnswersFor(artist_names) :
          all_spotify_tracks' \in Orders(Concat(answers, decade, 1), track_source)
    /\ gpIdx' = 1
    /\ matched_track_ids' = <<>>
    /\ gpPc' = "matching"
    /\ UNCHANGED <<spotify_client, artist_names, playlist_style, track_count, track_source,
                   decade, pending_playlist, last_preview, create_requests, save_status>>
    /\ UNCHANGED <<normVars, fdVars, junkVars, mpVars, plVars, arVars, cnVars, mergeVars>>

\* Lines 542 and 589-591: a get_top_tracks request raises; the preview fails.
generate_preview_fetch_failed ==
    /\ gpPc = "fetching"
    /\ pending_playlist' = <<>>
    /\ last_preview' = Preview("failed", track_count, "", <<>>, last_preview.after_ok)
    /\ artist_names' = <<>> /\ playlist_style' = "" /\ track_count' = 0
    /\ track_source' = "" /\ decade' = ""
    /\ all_spotify_tracks' = <<>> /\ gpIdx' = 0 /\ matched_track_ids' = <<>>
    /\ gpPc' = "idle"
    /\ UNCHANGED <<spotify_client, create_requests, save_status>>
    /\ UNCHANGED <<normVars, fdVars, junkVars, mpVars, plVars, arVars, cnVars, mergeVars>>

\* Lines 564-573: one iteration of the matching loop; found is find_track's
\* answer for the track.
generate_preview_match(found) ==
    /\ gpPc = "matching"
    /\ gpIdx <= Len(all_spotify_tracks)
    /\ Len(matched_track_ids) < track_count
    /\ found \in FindTrackAnswers(all_spotify_tracks[gpIdx].name)
    /\ matched_track_ids' = IF found # <<>> THEN Append(matched_track_ids, found[1].Id)
                            ELSE matched_track_ids
    /\ gpIdx' = gpIdx + 1
    /\ UNCHANGED <<gpPc, spotify_client, artist_names, playlist_style, track_count,
                   track_source, decade, all_spotify_tracks, pending_playlist, last_preview,
                   create_requests, save_status>>
    /\ UNCHANGED <<normVars, fdVars, junkVars, mpVars, plVars, arVars, cnVars, mergeVars>>

\* Lines 568 and 589-591: find_track raises; the preview fails.
generate_preview_match_failed ==
    /\ gpPc = "matching"
    /\ gpIdx <= Len(all_spotify_tracks)
    /\ Len(matched_track_ids) < track_count
    /\ pending_playlist' = <<>>
    /\ last_preview' = Preview("failed", track_count, "", <<>>, last_preview.after_ok)
    /\ artist_names' = <<>> /\ playlist_style' = "" /\ track_count' = 0
    /\ track_source' = "" /\ decade' = ""
    /\ all_spotify_tracks' = <<>> /\ gpIdx' = 0 /\ matched_track_ids' = <<>>
    /\ gpPc' = "idle"
    /\ UNCHANGED <<spotify_client, create_requests, save_status>>
    /\ UNCHANGED <<normVars, fdVars, junkVars, mpVars, plVars, arVars, cnVars, mergeVars>>

\* Lines 565-566 and 575-588: the loop is over; without a match the call
\* returns, else the playlist is kept as pending.
generate_preview_finish ==
    /\ gpPc = "matching"
    /\ gpIdx > Len(all_spotify_tracks) \/ Len(matched_track_ids) >= track_count
    /\ IF matched_track_ids = <<>>
       THEN /\ last_preview' = Preview("nomatch", track_count, "", <<>>, last_preview.after_ok)
            /\ UNCHANGED pending_playlist
       ELSE LET playlist_name == build_playlist_name(artist_names, playlist_style)
            IN  /\ pending_playlist' = << [name |-> playlist_name,
                                           track_ids |-> matched_track_ids] >>
                /\ last_preview' = Preview("ok", track_count, playlist_name,
                                           matched_track_ids, last_preview.after_ok)
    /\ artist_names' = <<>> /\ playlist_style' = "" /\ track_count' = 0
    /\ track_source' = "" /\ decade' = ""
    /\ all_spotify_tracks' = <<>> /\ gpIdx' = 0 /\ matched_track_ids' = <<>>
    /\ gpPc' = "idle"
    /\ UNCHANGED <<spotify_client, create_requests, save_status>>
    /\ UNCHANGED <<normVars, fdVars, junkVars, mpVars, plVars, arVars, cnVars, mergeVars>>

\* Lines 602-614: without a pending playlist the call is refused; else one
\* create request is made, which succeeds (ok) or raises.
save_playlist(ok) ==
    /\ gpPc = "idle"
    /\ IF pending_playlist = <<>>
       THEN /\ create_requests' = <<>>
            /\ save_status' = "No playlist preview ready"
       ELSE /\ create_requests' = << [op |-> "create_playlist",
                                      name |-> pending_playlist[1].name,
                                      track_ids |-> pending_playlist[1].track_ids,
                                      ok |-> ok] >>
            /\ save_status' = IF ok THEN "Created playlist" ELSE "Failed to create playlist"
    /\ UNCHANGED <<gpPc, spotify_client, artist_names, playlist_style, track_count,
                   track_source, decade, all_spotify_tracks, gpIdx, matched_track_ids, pending_playlist,
                   last_preview>>
    /\ UNCHANGED <<normVars, fdVars, junkVars, mpVars, plVars, arVars, cnVars, mergeVars>>

NextGp ==
    \/ \E ok \in BOOLEAN : connect_spotify(ok)
    \/ \E artist_input \in ArtistInputs : generate_preview_rejected(artist_input)
    \/ \E artist_input \in ArtistInputs, style \in PlaylistStyles, count \in 1..MaxCount,
          source \in TrackSources, era \in Decades :
          generate_preview_begin(artist_input, style, count, source, era)
    \/ generate_preview_fetch
    \/ generate_preview_fetch_failed
    \/ \E found \in UNION {FindTrackAnswers(t.Name) : t \in JellyfinTracks} :
          generate_preview_match(found)
    \/ generate_preview_match_failed
    \/ generate_preview_finish
    \/ \E ok \in BOOLEAN : save_playlist(ok)

-----------------------------------------------------------------------------
(* Specifications: one per component, the other components being off.       *)

InitNormOnly   == InitNorm  /\ FdIdle /\ JunkIdle /\ MpIdle /\ MergeIdle
                            /\ PlIdle /\ ArIdle /\ CnIdle /\ GpIdle
InitFdOnly     == InitFd    /\ NormIdle /\ JunkIdle /\ MpIdle /\ MergeIdle
                            /\ PlIdle /\ ArIdle /\ CnIdle /\ GpIdle
InitJunkOnly   == InitJunk  /\ NormIdle /\ FdIdle /\ MpIdle /\ MergeIdle
                            /\ PlIdle /\ ArIdle /\ CnIdle /\ GpIdle
InitMpOnly     == InitMp    /\ NormIdle /\ FdIdle /\ JunkIdle /\ MergeIdle
                            /\ PlIdle /\ ArIdle /\ CnIdle /\ GpIdle
InitMergeOnly  == InitMerge /\ NormIdle /\ FdIdle /\ JunkIdle /\ MpIdle
                            /\ PlIdle /\ ArIdle /\ CnIdle /\ GpIdle
InitPlOnly     == InitPl    /\ NormIdle /\ FdIdle /\ JunkIdle /\ MpIdle /\ MergeIdle
                            /\ ArIdle /\ CnIdle /\ GpIdle
InitRenameOnly == InitRename /\ NormIdle /\ JunkIdle /\ MpIdle /\ MergeIdle
                             /\ PlIdle /\ CnIdle /\ GpIdle
InitCnOnly     == InitCn    /\ NormIdle /\ FdIdle /\ JunkIdle /\ MpIdle /\ MergeIdle
                            /\ PlIdle /\ ArIdle /\ GpIdle
InitGpOnly     == InitGp    /\ NormIdle /\ FdIdle /\ JunkIdle /\ MpIdle /\ MergeIdle
                            /\ PlIdle /\ ArIdle /\ CnIdle

Init == \/ InitNormOnly \/ InitFdOnly \/ InitJunkOnly \/ InitMpOnly \/ InitMergeOnly
        \/ InitPlOnly \/ InitRenameOnly \/ InitCnOnly \/ InitGpOnly

Next == \/ NextNorm \/ NextFd \/ NextJunk \/ NextMp \/ NextMerge
        \/ NextPl \/ NextRename \/ NextCn \/ NextGp

Spec == Init /\ [][Next]_vars

SpecNorm   == InitNormOnly   /\ [][NextNorm]_vars
SpecFd     == InitFdOnly     /\ [][NextFd]_vars
SpecJunk   == InitJunkOnly   /\ [][NextJunk]_vars
SpecMp     == InitMpOnly     /\ [][NextMp]_vars
SpecMerge  == InitMergeOnly  /\ [][NextMerge]_vars
SpecPl     == InitPlOnly     /\ [][NextPl]_vars
SpecRename == InitRenameOnly /\ [][NextRename]_vars
SpecCn     == InitCnOnly     /\ [][NextCn]_vars
SpecGp     == InitGpOnly     /\ [][NextGp]_vars

-----------------------------------------------------------------------------
(* Properties of find_duplicates, checked under SpecFd.                     *)

\* The item ids of the members of the g-th returned group.
GroupIds(g) ==
    {duplicate_groups[g].artists[k].item_id : k \in 1..Len(duplicate_groups[g].artists)}

\* The input record at index i has a key of its own and scores below the
\* threshold against every other input record.
MatchesNothing(i) ==
    \A j \in 1..Len(fdArtists) :
        j # i =>
            LET norm1 == normalize_name(fdArtists[i].title)
                norm2 == normalize_name(fdArtists[j].title)
            IN  /\ norm1 # norm2
                /\ ~RatGE(best_similarity(norm1, norm2), <<fdThreshold, 1>>)

\* C1: after a scan no record id is in two returned groups, or twice in one:
\* every input record is a member of at most one group, every member is an
\* input record, and a record that matched nothing is in no group.
C1_GroupsShareNoRecord ==
    fdPc = "scanned" =>
        /\ \A g \in 1..Len(duplicate_groups) :
              /\ Cardinality(GroupIds(g)) = Len(duplicate_groups[g].artists)
              /\ \A k \in 1..Len(duplicate_groups[g].artists) :
                    \E i \in 1..Len(fdArtists) : fdArtists[i] = duplicate_groups[g].artists[k]
              /\ \A h \in 1..Len(duplicate_groups) :
                    h # g => GroupIds(g) \cap GroupIds(h) = {}
        /\ \A i \in 1..Len(fdArtists) :
              MatchesNothing(i) =>
                  \A g \in 1..Len(duplicate_groups) : fdArtists[i].item_id \notin GroupIds(g)

\* A scan returned two groups and left one record out of both.
C1_Witness ==
    /\ fdPc = "scanned"
    /\ Len(duplicate_groups) = 2
    /\ \E i \in 1..Len(fdArtists) :
          /\ MatchesNothing(i)
          /\ \A g \in 1..Len(duplicate_groups) : fdArtists[i].item_id \notin GroupIds(g)

\* C5: every group a scan returns has at least two members.
C5_GroupsHaveTwoMembers ==
    fdPc = "scanned" =>
        \A g \in 1..Len(duplicate_groups) : Len(duplicate_groups[g].artists) >= 2

\* A scan of three records returned one group of two: the third record was a
\* candidate group of one and was dropped.
C5_Witness ==
    /\ fdPc = "scanned"
    /\ Len(fdArtists) = 3
    /\ Len(duplicate_groups) = 1
    /\ Len(duplicate_groups[1].artists) = 2

\* C8: a scan of the artists "AC/DC", "AC-DC", "ACDC" finds one key for the
\* three names and returns a single group of all three with score 100.0.
C8_AcDcIsOneExactGroup ==
    (fdPc = "scanned" /\ Titles(fdArtists) = <<"AC/DC", "AC-DC", "ACDC">>) =>
        /\ normalize_name("AC/DC") = normalize_name("AC-DC")
        /\ normalize_name("AC-DC") = normalize_name("ACDC")
        /\ Len(duplicate_groups) = 1
        /\ Titles(duplicate_groups[1].artists) = <<"AC/DC", "AC-DC", "ACDC">>
        /\ duplicate_groups[1].similarity_score = <<100, 1>>

-----------------------------------------------------------------------------
(* Properties of normalize_name, checked under SpecNorm.                    *)

\* C6: normalizing a normalized name changes nothing:
\* normalize_name(normalize_name(n)) = normalize_name(n) for every name n.
C6_NormalizeIsIdempotent ==
    nPc = "twice" => nOut2 = nOut1

\* C7: "Beatles, The" and "The Beatles" normalize to the same key.
C7_TheSpellingsShareKey ==
    (nPc = "once" /\ nIn = "Beatles, The") => nOut1 = normalize_name("The Beatles")

-----------------------------------------------------------------------------
(* Properties of scan_junk_artists, checked under SpecJunk.                 *)

\* The reasons the scan reported for the raw artist at index i, if any.
ReportedFor(i) == {jFlagged[k].reasons : k \in {k \in 1..Len(jFlagged) : jFlagged[k].artist = jRaw[i]}}

\* C9: after a scan, an artist whose lowercased name is whitelisted is not
\* flagged whatever rules it matches; any other artist is flagged exactly when
\* some rule matches its name; "01" is flagged and its reasons include
\* "numeric only".
C9_WhitelistThenRules ==
    jPc = "scanned" =>
        \A i \in 1..Len(jRaw) :
            LET name == jRaw[i].Name
            IN  /\ Lower(name) \in JUNK_WHITELIST => ReportedFor(i) = {}
                /\ Lower(name) \notin JUNK_WHITELIST =>
                      (ReportedFor(i) # {} <=> \E k \in 1..Len(JunkLabels) : MatchesRule(k, name))
                /\ name = "01" =>
                      /\ ReportedFor(i) # {}
                      /\ \A rs \in ReportedFor(i) : \E k \in 1..Len(rs) : rs[k] = "numeric only"
                /\ (ReportedFor(i) # {}) <=> (jRaw[i] \in {junk_artist_candidates[k] :
                                                            k \in 1..Len(junk_artist_candidates)})

\* A scan of the artists "U2" and "01" flagged "01" as numeric only and left
\* "U2", which two rules match, alone.
C9_Witness ==
    /\ jPc = "scanned"
    /\ Len(jRaw) = 2 /\ jRaw[1].Name = "U2" /\ jRaw[2].Name = "01"
    /\ MatchesRule(2, "U2")
    /\ Len(jFlagged) = 1 /\ jFlagged[1].artist = jRaw[2]
    /\ jFlagged[1].reasons[1] = "numeric only"

-----------------------------------------------------------------------------
(* Properties of _match_playlist_to_album, checked under SpecMp.            *)

\* The places of the playlist name where the separator " - " starts.
SeparatorAt == {p \in 1..Len(mpName) : p + 2 <= Len(mpName) /\ SubSeq(mpName, p, p + 2) = " - "}

\* The album at index i scores at least 85 on the name and at least 75 on the
\* artist against the text after, and before, the first separator.
Qualifies(i) ==
    LET p == CHOOSE p \in SeparatorAt : \A q \in SeparatorAt : p <= q
        artist_part == SubSeq(mpName, 1, p - 1)
        album_part  == SubSeq(mpName, p + 3, Len(mpName))
        name_score   == token_sort_ratio(Lower(mpAlbums[i].Name), Lower(Strip(album_part)))
        artist_score == token_sort_ratio(Lower(mpAlbums[i].AlbumArtist), Lower(Strip(artist_part)))
    IN  /\ name_score[1] >= NameScoreMin * name_score[2]
        /\ artist_score[1] >= ArtistScoreMin * artist_score[2]

\* C10: the matcher returns None for a playlist name without " - "; otherwise
\* it returns "<name> (by <artist>)" of the first album, in list order, that
\* scores >= 85 on the name and >= 75 on the artist against the parts of the
\* playlist name around its first " - ", and None when there is no such album.
C10_FirstQualifyingAlbum ==
    mpPc = "matched" =>
        IF SeparatorAt = {} THEN mpResult = <<>>
        ELSE LET hits == {i \in 1..Len(mpAlbums) : Qualifies(i)}
             IN  IF hits = {} THEN mpResult = <<>>
                 ELSE LET first == CHOOSE i \in hits : \A k \in hits : i <= k
                      IN  mpResult = << mpAlbums[first].Name \o " (by "
                                        \o mpAlbums[first].AlbumArtist \o ")" >>

\* A playlist name with two separators matched the second of two albums, the
\* first album's name scoring too low.
C10_Witness ==
    /\ mpPc = "matched"
    /\ mpName = "Yes - Fragile - Live"
    /\ Len(mpAlbums) = 2 /\ mpAlbums[1].Name = "Fragile"
    /\ mpResult = <<"Fragile - Live (by Yes)">>

-----------------------------------------------------------------------------
(* Properties of merge_selected_artist_pairs, checked under SpecMerge.      *)
(* While a pair is processed, requests holds the catalog requests made for  *)
(* it so far: the two track fetches, then one request per loser track.      *)

\* A pair's tracks have been fetched and the pair is not yet reported.
InPair == mPc \in {"tracks", "retire", "report"}

\* The number of loser tracks the track loop has been through.
TracksDone == IF mPc = "tracks" THEN mTrack - 1 ELSE Len(loser_tracks)

\* The request made for the k-th loser track.
TrackRequest(k) == requests[2 + k]

\* The loser's track has the name of a winner's track, case and surrounding
\* blanks aside.
SameNamed(track) ==
    \E i \in 1..Len(winner_tracks) :
        Lower(Strip(winner_tracks[i].Name)) = Lower(Strip(track.Name))

\* The places of the log that hold a delete or reassign request for the track.
RequestsFor(track) ==
    {j \in 1..Len(requests) :
        /\ requests[j].id = track.Id
        /\ requests[j].op \in {"delete_item", "update_track_artist"}}

\* C2: each loser track the loop has been through got exactly one request: a
\* delete when its case-folded, trimmed name is that of a winner's track, a
\* reassign to the winner's name otherwise; with one same-named and one unique
\* loser track and no failure the counts are deleted = 1 and reassigned = 1.
C2_TracksPartitionedByName ==
    InPair =>
        /\ \A k \in 1..TracksDone :
              LET track == loser_tracks[k]
              IN  /\ RequestsFor(track) = {2 + k}
                  /\ IF SameNamed(track)
                     THEN TrackRequest(k).op = "delete_item"
                     ELSE /\ TrackRequest(k).op = "update_track_artist"
                          /\ TrackRequest(k).arg = CurWinner.Name
        /\ ( /\ mPc = "report"
             /\ Len(loser_tracks) = 2
             /\ SameNamed(loser_tracks[1]) # SameNamed(loser_tracks[2])
             /\ \A j \in 1..Len(requests) : requests[j].ok )
           => (deleted_dupes = 1 /\ reassigned = 1)

\* A pair whose loser has the track "song " (the winner has "Song" under
\* another id) and the track "Other" went through without a failure.
C2_Witness ==
    /\ mPc = "report"
    /\ Len(winner_tracks) = 1 /\ winner_tracks[1].Name = "Song"
    /\ Len(loser_tracks) = 2
    /\ loser_tracks[1].Name = "song " /\ loser_tracks[1].Id # winner_tracks[1].Id
    /\ loser_tracks[2].Name = "Other"
    /\ \A j \in 1..Len(requests) : requests[j].ok
    /\ TrackRequest(1).op = "delete_item" /\ TrackRequest(2).op = "update_track_artist"
    /\ deleted_dupes = 1 /\ reassigned = 1

\* The error line of a failed request for the k-th loser track.
TrackError(k) ==
    (IF TrackRequest(k).op = "delete_item" THEN "Delete track '" ELSE "Reassign track '")
        \o loser_tracks[k].Name \o "'"

\* The error lines of the failed track requests among the first k, in order.
RECURSIVE TrackErrors(_)
TrackErrors(k) ==
    IF k = 0 THEN <<>>
    ELSE TrackErrors(k - 1) \o (IF TrackRequest(k).ok THEN <<>> ELSE <<TrackError(k)>>)

\* The error list without the line of a failed loser delete of this pair.
ErrorsOfTracks ==
    IF mPc = "report" /\ ~requests[Len(requests)].ok
    THEN SubSeq(errors, 1, Len(errors) - 1) ELSE errors

\* C3: a failed track request is recorded in the error list and the loop goes
\* on: every loser track the loop has passed was requested whatever failed
\* before it, and the requests that succeeded stay counted.
C3_TrackFailureIsRecordedNotFatal ==
    InPair =>
        /\ Len(requests) >= 2 + TracksDone
        /\ \A k \in 1..TracksDone : TrackRequest(k).id = loser_tracks[k].Id
        /\ LET expected == TrackErrors(TracksDone)
               have     == ErrorsOfTracks
           IN  /\ Len(have) >= Len(expected)
               /\ SubSeq(have, Len(have) - Len(expected) + 1, Len(have)) = expected
        /\ deleted_dupes = Cardinality({k \in 1..TracksDone :
                              TrackRequest(k).op = "delete_item" /\ TrackRequest(k).ok})
        /\ reassigned = Cardinality({k \in 1..TracksDone :
                              TrackRequest(k).op = "update_track_artist" /\ TrackRequest(k).ok})

\* The request for the first of two loser tracks failed and the request for
\* the second was made and succeeded; the success is counted.
C3_Witness ==
    /\ mPc = "retire"
    /\ Len(loser_tracks) = 2
    /\ ~TrackRequest(1).ok /\ TrackRequest(2).ok
    /\ deleted_dupes + reassigned = 1
    /\ errors # <<>>

\* What the log holds once the loser is being retired: after the requests for
\* every loser track the rename of the loser to the winner's name and then, in
\* the "report" state, a single delete of the loser.
RetireLog ==
    /\ mPc = "tracks" =>
          \A j \in 1..Len(requests) :
              requests[j].id = CurLoser.Id => requests[j].op = "get_tracks_for_artist"
    /\ mPc \in {"retire", "report"} =>
          LET n == 2 + Len(loser_tracks)
          IN  /\ Len(requests) = IF mPc = "retire" THEN n + 1 ELSE n + 2
              /\ \A k \in 1..Len(loser_tracks) : TrackRequest(k).id = loser_tracks[k].Id
              /\ requests[n + 1].op = "rename_artist"
              /\ requests[n + 1].id = CurLoser.Id
              /\ requests[n + 1].arg = CurWinner.Name
              /\ mPc = "report" =>
                    /\ requests[n + 2].op = "delete_item"
                    /\ {j \in 1..Len(requests) : requests[j].id = CurLoser.Id
                                                 /\ requests[j].op = "delete_item"} = {n + 2}

\* C4: the loser is retired only after every loser track was processed, by a
\* rename and then one delete, the delete being made whether or not the rename
\* succeeded; the rename step records nothing, a failed delete appends its
\* line to the error list, and a pair is counted only after its loser delete.
C4_RetireAfterTracks ==
    [][ /\ RetireLog'
        /\ (mPc = "tracks" /\ mPc' = "retire") =>
              /\ errors' = errors /\ report' = report /\ merged_pairs' = merged_pairs
              /\ deleted_dupes' = deleted_dupes /\ reassigned' = reassigned
        /\ (mPc = "retire" /\ mPc' # "retire") =>
              /\ mPc' = "report"
              /\ errors' = IF requests'[Len(requests')].ok THEN errors
                           ELSE Append(errors, "Delete artist '" \o CurLoser.Name \o "'")
        /\ (mPc' # "idle" /\ merged_pairs' # merged_pairs) =>
              (mPc = "report" /\ merged_pairs' = merged_pairs + 1)
      ]_vars

\* Both the rename and the delete of a loser with two tracks failed: the
\* delete was still requested, and only its line was added to the errors.
C4_Witness ==
    /\ mPc = "report"
    /\ Len(loser_tracks) = 2
    /\ \A k \in 1..2 : TrackRequest(k).ok
    /\ ~requests[Len(requests) - 1].ok /\ requests[Len(requests) - 1].op = "rename_artist"
    /\ ~requests[Len(requests)].ok /\ requests[Len(requests)].op = "delete_item"
    /\ errors = << "Delete artist '" \o CurLoser.Name \o "'" >>

-----------------------------------------------------------------------------
(* Properties of scan_bogus_playlists and delete_selected_playlists,        *)
(* checked under SpecPl.                                                     *)

\* The ids of the playlists the last scan stored.
StoredIds == {bogus_playlists[i].Id : i \in 1..Len(bogus_playlists)}

\* The labels the check-box group shows ticked.
PreselectedLabels == {pl_preselected[j] : j \in 1..Len(pl_preselected)}

\* C11: after a scan the i-th choice is the label of the i-th stored playlist;
\* a catalog playlist whose name has the separator " - " is stored, and its
\* choice is pre-selected exactly when an album of the library matches it; a
\* playlist without the separator is not stored and is no choice; nothing else
\* is stored or pre-selected.
C11_PreselectedAreTheMatched ==
    plPc = "scanned" =>
        /\ Len(pl_choices) = Len(bogus_playlists)
        /\ \A i \in 1..Len(bogus_playlists) :
              /\ StartsWithAt(pl_choices[i], bogus_playlists[i].Name, 1)
              /\ \E k \in 1..Len(plPlaylists) :
                    /\ plPlaylists[k].Id = bogus_playlists[i].Id
                    /\ plPlaylists[k].Name = bogus_playlists[i].Name
        /\ PreselectedLabels \subseteq {pl_choices[i] : i \in 1..Len(pl_choices)}
        /\ \A k \in 1..Len(plPlaylists) :
              IF Contains(plPlaylists[k].Name, " - ")
              THEN \E i \in 1..Len(bogus_playlists) :
                      /\ bogus_playlists[i].Id = plPlaylists[k].Id
                      /\ pl_choices[i] \in PreselectedLabels
                            <=> match_playlist_to_album(plPlaylists[k].Name, plAlbums) # <<>>
              ELSE /\ plPlaylists[k].Id \notin StoredIds
                   /\ \A i \in 1..Len(pl_choices) :
                         ~StartsWithAt(pl_choices[i], plPlaylists[k].Name, 1)

\* A scan of three playlists: one matched an album and is pre-selected, one
\* has the separator but no album and is a choice that is not pre-selected,
\* one has no separator and is not listed.
C11_Witness ==
    /\ plPc = "scanned"
    /\ Len(plPlaylists) = 3
    /\ Len(pl_choices) = 2
    /\ Len(pl_preselected) = 1
    /\ pl_choices[2] \notin PreselectedLabels

\* The source path of the stored playlist with the id.
PathOf(id) ==
    bogus_playlists[CHOOSE i \in 1..Len(bogus_playlists) : bogus_playlists[i].Id = id].Path

\* C13: the choice label of every scanned playlist that has a source path
\* shows the path; while delete_selected_playlists runs, and when its loop is
\* over, the paths it will list are those of the playlists whose delete
\* request succeeded and that have a path, in the order of the requests, and
\* of no playlist whose delete raised.
C13_PathsShownAndListed ==
    /\ plPc = "scanned" =>
          \A i \in 1..Len(bogus_playlists) :
              bogus_playlists[i].Path # "" =>
                  Contains(pl_choices[i], "source: " \o bogus_playlists[i].Path)
    /\ plPc = "deleting" =>
          m3u_paths =
              LET done == SelectSeq(pl_requests, LAMBDA r : r.ok /\ PathOf(r.id) # "")
              IN  [k \in 1..Len(done) |-> PathOf(done[k].id)]

\* Two playlists with a source path were selected: the first was deleted and
\* its path is listed, the delete of the second raised and its path is not.
C13_Witness ==
    /\ plPc = "deleting"
    /\ plIdx > Len(pl_selected)
    /\ Len(pl_requests) = 2
    /\ pl_requests[1].ok /\ ~pl_requests[2].ok
    /\ PathOf(pl_requests[1].id) # "" /\ PathOf(pl_requests[2].id) # ""
    /\ PathOf(pl_requests[1].id) # PathOf(pl_requests[2].id)
    /\ m3u_paths = << PathOf(pl_requests[1].id) >>
    /\ \E i \in 1..Len(pl_choices) :
          Contains(pl_choices[i], "source: " \o PathOf(pl_requests[1].id))

-----------------------------------------------------------------------------
(* Properties of apply_rename, checked under SpecRename.                    *)

\* A rename request for the artist was sent and raised.
RenameFailedFor(item_id) ==
    \E r \in 1..Len(ar_requests) :
        /\ ar_requests[r].op = "rename_artist"
        /\ ar_requests[r].id = item_id
        /\ ~ar_requests[r].ok

\* C12: a batch operation runs its whole batch past the failure of one item
\* and returns the count of successes with the failures.  For apply_rename:
\* when the handler returns from its loop, every artist of the group has the
\* preferred name or a failed rename request of its own, and the message
\* gives the count of the artists renamed.
C12_RenameRunsPastFailures ==
    (arPc = "done" /\ preferred_name # "") =>
        /\ \A k \in 1..Len(CurrentGroup.artists) :
              \/ CurrentGroup.artists[k].title = preferred_name
              \/ RenameFailedFor(CurrentGroup.artists[k].item_id)
        /\ StartsWithAt(ar_result, "Renamed " \o IntStr(renamed) \o " artists", 1)

-----------------------------------------------------------------------------
(* Further properties of scan_duplicates and find_duplicates, checked       *)
(* under SpecFd.                                                             *)

\* C14: a scan of an empty artist list is rejected with a configuration
\* error: no scan of an empty list returns a result.
C14_EmptyListIsRejected ==
    fdPc = "scanned" => fdArtists # <<>>

-----------------------------------------------------------------------------
(* Properties of suggest_canonical_name, checked under SpecCn.              *)

\* The score of a name in tenths, with the first term given to the names that
\* contain no comma.
CommaFreeScore(name) ==
      (IF ~Contains(name, ",") THEN 100 ELSE 0)
    + Len(name)
    + (IF HasAndThe(name) THEN 50 ELSE 0)
    + (IF name = Title(name) THEN 30 ELSE 0)
    + (IF name # Upper(name) /\ name # Lower(name) THEN 20 ELSE 0)

\* C15: a single name is returned unchanged; of two or more names the result
\* is one of them and none of them has a higher score, the score being 10 for
\* a name that contains no comma, plus length/10, plus 5 for "and/& the", plus
\* 3 for a title-case name, plus 2 for a mixed-case name; the two spellings of
\* the rolling stones give "The Rolling Stones".
C15_CanonicalHasHighestScore ==
    cnPc = "done" =>
        /\ Len(cnNames) = 1 => cnResult = cnNames[1]
        /\ Len(cnNames) >= 2 =>
              /\ \E i \in 1..Len(cnNames) : cnResult = cnNames[i]
              /\ \A i \in 1..Len(cnNames) :
                    CommaFreeScore(cnResult) >= CommaFreeScore(cnNames[i])
        /\ cnNames = <<"the rolling stones", "The Rolling Stones">> =>
              cnResult = "The Rolling Stones"

-----------------------------------------------------------------------------
(* Properties of the two passes of find_duplicates, checked under SpecFd.   *)

\* The records of the normalized input that have the key of the record p,
\* in input order.
SameKey(normalized, p) == SelectSeq(normalized, LAMBDA q : q.norm = p.norm)

\* The score of two records.
ScoreOf(a, b) == best_similarity(normalize_name(a.title), normalize_name(b.title))

\* The g-th returned group is an exact bucket: its members share one key.
IsExactGroup(g) ==
    \A k \in 1..Len(duplicate_groups[g].artists) :
        normalize_name(duplicate_groups[g].artists[k].title)
            = normalize_name(duplicate_groups[g].artists[1].title)

\* C16: the input records that share a key form one group, which holds them
\* all in input order and has the score 100.0; none of them is in another
\* group, and the other groups are those found for the input without them:
\* they are neither starters nor candidates of the fuzzy pass.
C16_ExactBucketsAreGroups ==
    fdPc = "scanned" =>
        LET normalized == Normalized(fdArtists)
            fuzzy == {g \in 1..Len(duplicate_groups) : ~IsExactGroup(g)}
            rest  == Artists(SelectSeq(normalized,
                                       LAMBDA p : Len(SameKey(normalized, p)) < 2))
            found == find_duplicates(rest, fdThreshold)
        IN  /\ \A i \in 1..Len(normalized) :
                  Len(SameKey(normalized, normalized[i])) >= 2 =>
                      \E g \in 1..Len(duplicate_groups) :
                          /\ duplicate_groups[g].artists
                                = Artists(SameKey(normalized, normalized[i]))
                          /\ duplicate_groups[g].similarity_score = <<100, 1>>
                          /\ \A h \in 1..Len(duplicate_groups) :
                                h # g => fdArtists[i].item_id \notin GroupIds(h)
            /\ Len(found) = Cardinality(fuzzy)
            /\ \A g \in fuzzy : \E f \in 1..Len(found) : found[f] = duplicate_groups[g]

\* A scan returned an exact group of two and left out a record that scores at
\* or above the threshold against a member of that group.
C16_Witness ==
    /\ fdPc = "scanned"
    /\ \E g \in 1..Len(duplicate_groups) :
          /\ IsExactGroup(g)
          /\ duplicate_groups[g].similarity_score = <<100, 1>>
          /\ \E i \in 1..Len(fdArtists) :
                /\ \A h \in 1..Len(duplicate_groups) : fdArtists[i].item_id \notin GroupIds(h)
                /\ \E k \in 1..Len(duplicate_groups[g].artists) :
                      RatGE(best_similarity(normalize_name(fdArtists[i].title),
                                            normalize_name(duplicate_groups[g].artists[k].title)),
                            <<fdThreshold, 1>>)

\* The records left to the fuzzy pass, each with its key, in input order.
Remaining ==
    LET normalized == Normalized(fdArtists)
    IN  SelectSeq(normalized, LAMBDA p : Len(SameKey(normalized, p)) < 2)

\* The score of the two records is at or above the threshold of the scan.
Reaches(p, q) == RatGE(best_similarity(p.norm, q.norm), <<fdThreshold, 1>>)

\* The i-th of the records rem starts a candidate group: no earlier starter
\* reached it.
RECURSIVE IsStarter(_, _)
IsStarter(rem, i) ==
    \A j \in 1..(i - 1) : Reaches(rem[j], rem[i]) => ~IsStarter(rem, j)

\* The i-th record joined the group of the starter j: j is the first starter
\* before i that reaches it.
JoinedTo(rem, i, j) ==
    /\ j < i /\ Reaches(rem[j], rem[i]) /\ IsStarter(rem, j)
    /\ \A k \in 1..(j - 1) : Reaches(rem[k], rem[i]) => ~IsStarter(rem, k)

\* The group of the starter j: the starter, then the records that joined it.
GroupOfStarter(rem, j) ==
    <<rem[j].artist>> \o
    Artists(SelectSeq(rem, LAMBDA q : \E i \in (j + 1)..Len(rem) :
                                          rem[i] = q /\ JoinedTo(rem, i, j)))

\* C17: the fuzzy pass is one greedy pass in input order: a record that no
\* earlier starter consumed starts a group, and a later record joins the group
\* of the first starter whose score against it is at or above the threshold;
\* it is compared with starters only, never with the members of a group.  The
\* fuzzy groups returned are the groups of the starters that some record
\* joined.
C17_FuzzyPassIsGreedy ==
    fdPc = "scanned" =>
        LET rem == Remaining
        IN  {duplicate_groups[g].artists :
                g \in {h \in 1..Len(duplicate_groups) : ~IsExactGroup(h)}}
            = {GroupOfStarter(rem, j) :
                  j \in {s \in 1..Len(rem) : IsStarter(rem, s)
                                             /\ Len(GroupOfStarter(rem, s)) >= 2}}

\* A scan returned a fuzzy group and left out a record that scores at or
\* above the threshold against a member of the group, but below it against
\* the starter.
C17_Witness ==
    /\ fdPc = "scanned"
    /\ \E g \in 1..Len(duplicate_groups) :
          /\ ~IsExactGroup(g)
          /\ \E i \in 1..Len(fdArtists) :
                /\ \A h \in 1..Len(duplicate_groups) : fdArtists[i].item_id \notin GroupIds(h)
                /\ ~RatGE(ScoreOf(duplicate_groups[g].artists[1], fdArtists[i]),
                          <<fdThreshold, 1>>)
                /\ \E k \in 2..Len(duplicate_groups[g].artists) :
                      RatGE(ScoreOf(duplicate_groups[g].artists[k], fdArtists[i]),
                            <<fdThreshold, 1>>)

\* The scores of the starter of the g-th group against its other members.
MemberScores(g) ==
    [k \in 1..(Len(duplicate_groups[g].artists) - 1) |->
        ScoreOf(duplicate_groups[g].artists[1], duplicate_groups[g].artists[k + 1])]

\* C18: the similarity_score of a fuzzy group is the arithmetic mean of the
\* scores of its starter against each of its other members, and so lies
\* between the threshold and 100; an exact-bucket group has the score 100.0.
C18_FuzzyScoreIsMean ==
    fdPc = "scanned" =>
        \A g \in 1..Len(duplicate_groups) :
            LET score == duplicate_groups[g].similarity_score
                total == SumScores(MemberScores(g))
            IN  IF IsExactGroup(g) THEN score = <<100, 1>>
                ELSE /\ score[1] * total[2] * Len(MemberScores(g)) = total[1] * score[2]
                     /\ RatGE(score, <<fdThreshold, 1>>)
                     /\ RatGE(<<100, 1>>, score)

\* A scan returned a fuzzy group of three whose two member scores differ: its
\* score is neither of them.
C18_Witness ==
    /\ fdPc = "scanned"
    /\ \E g \in 1..Len(duplicate_groups) :
          /\ ~IsExactGroup(g)
          /\ Len(duplicate_groups[g].artists) = 3
          /\ MemberScores(g)[1] # MemberScores(g)[2]
          /\ duplicate_groups[g].similarity_score \notin {MemberScores(g)[1], MemberScores(g)[2]}

\* The place in the input of the first member of the g-th group.
FirstIndex(g) ==
    CHOOSE i \in 1..Len(fdArtists) :
        fdArtists[i].item_id = duplicate_groups[g].artists[1].item_id

\* C19: the groups are returned by total_tracks, highest first, and of two
\* groups with the same total_tracks the one whose first member is earlier in
\* the input comes first, whichever pass found them.
C19_TiesInInputOrder ==
    fdPc = "scanned" =>
        \A g \in 1..Len(duplicate_groups) : \A h \in (g + 1)..Len(duplicate_groups) :
            /\ total_tracks(duplicate_groups[g]) >= total_tracks(duplicate_groups[h])
            /\ total_tracks(duplicate_groups[g]) = total_tracks(duplicate_groups[h])
                  => FirstIndex(g) < FirstIndex(h)

-----------------------------------------------------------------------------
(* Further properties of normalize_name, checked under SpecNorm.            *)

\* The "Last, First" rewrite of a stripped name that fires when the name has
\* exactly one comma between two non-empty parts and the second part is not
\* itself one of the function words.
LastFirstUnlessWord(name) ==
    IF Contains(name, ", ") /\ CountCharFrom(name, ",", 1) = 1
    THEN LET p      == FindFrom(name, ", ", 1)
             first  == SubSeq(name, 1, p - 1)
             second == SubSeq(name, p + 2, Len(name))
         IN  IF first # "" /\ second # "" /\ Lower(second) \notin FunctionWords
             THEN second \o " " \o first
             ELSE name
    ELSE name

\* C20: the key of a name is the key it has when the "Last, First" rewrite
\* fires exactly for the names with one comma between two non-empty parts
\* whose second part is not itself a function word: a second part that only
\* contains such a word ("Andy") is reordered, a name with several commas is
\* left as it is.
C20_RewriteUnlessFunctionWord ==
    nPc = "once" =>
        nOut1 = Strip(CollapseSpace(StripFeat(FoldWords(LastFirstUnlessWord(Strip(nIn))))))

-----------------------------------------------------------------------------
(* Further properties of scan_junk_artists, checked under SpecJunk.         *)

\* The name holds, at some position, one of the category words between two
\* word boundaries, whatever its case.
HasCategoryWord(name) ==
    \E w \in CategoryWords : \E p \in 1..Len(name) :
        /\ StartsWithAt(Lower(name), w, p)
        /\ WordBoundary(name, p - 1)
        /\ WordBoundary(name, p - 1 + Len(w))

\* The reasons reported for the raw artist at index i hold the label.
Carries(i, label) ==
    /\ ReportedFor(i) # {}
    /\ \A rs \in ReportedFor(i) : \E k \in 1..Len(rs) : rs[k] = label

\* C21: after a scan, every artist that is not whitelisted and whose name
\* holds a category word as a whole word, at any position, is flagged with
\* "looks like a category/label": "Queen Greatest Hits" as well as
\* "Greatest Hits".
C21_CategoryWordAnywhere ==
    jPc = "scanned" =>
        \A i \in 1..Len(jRaw) :
            (HasCategoryWord(jRaw[i].Name) /\ Lower(jRaw[i].Name) \notin JUNK_WHITELIST)
                => Carries(i, "looks like a category/label")

\* The name is made of digits only.
AllDigits(name) == Len(name) >= 1 /\ \A p \in 1..Len(name) : IsDigit(CharAt(name, p))

\* C22: after a scan, the reasons of a flagged artist are labels of the rule
\* table, each once, in the order of the table; a name that is not
\* whitelisted carries "<=2 characters" when it has at most two characters,
\* the empty name included, and carries "numeric only" and "starts with
\* digit" when it is made of digits only.
C22_LabelsInOrderShortAndNumeric ==
    jPc = "scanned" =>
        /\ \A f \in 1..Len(jFlagged) :
              \A a \in 1..Len(jFlagged[f].reasons) : \A b \in (a + 1)..Len(jFlagged[f].reasons) :
                  \E j \in 1..Len(JunkLabels) : \E k \in (j + 1)..Len(JunkLabels) :
                      jFlagged[f].reasons[a] = JunkLabels[j] /\ jFlagged[f].reasons[b] = JunkLabels[k]
        /\ \A i \in 1..Len(jRaw) :
              Lower(jRaw[i].Name) \notin JUNK_WHITELIST =>
                  /\ Len(jRaw[i].Name) <= 2 => Carries(i, "<=2 characters")
                  /\ AllDigits(jRaw[i].Name) =>
                        Carries(i, "numeric only") /\ Carries(i, "starts with digit")

-----------------------------------------------------------------------------
(* Further properties of suggest_canonical_name, checked under SpecCn.      *)

\* C23: of two or more names the result is the first name of the list that
\* has the highest score: on an exact tie the name met first wins.
C23_FirstOfTheBestWins ==
    (cnPc = "done" /\ Len(cnNames) >= 2) =>
        \E i \in 1..Len(cnNames) :
            /\ cnResult = cnNames[i]
            /\ \A j \in 1..Len(cnNames) : NameScore(cnNames[j]) <= NameScore(cnNames[i])
            /\ \A j \in 1..(i - 1) : NameScore(cnNames[j]) < NameScore(cnNames[i])

-----------------------------------------------------------------------------
(* Further properties of merge_selected_artist_pairs, checked under         *)
(* SpecMerge.                                                                *)

\* C24: when the tracks of a selected pair cannot be fetched, the pair is
\* given up: the only requests made for it are track fetches, the last of
\* which failed; one error is recorded; the pair is neither reported nor
\* counted and no artist is deleted; the loop goes on with the next pair.
C24_FetchFailureGivesUpThePair ==
    [][ ( /\ mPc = "pairs"
          /\ mPair <= Len(artist_duplicate_pairs)
          /\ PairLabel(CurPair) \in selected
          /\ mPc' # "tracks" )
        => /\ requests' # <<>>
           /\ \A j \in 1..Len(requests') : requests'[j].op = "get_tracks_for_artist"
           /\ ~requests'[Len(requests')].ok
           /\ Len(errors') = Len(errors) + 1
           /\ SubSeq(errors', 1, Len(errors)) = errors
           /\ merged_pairs' = merged_pairs
           /\ report' = report
           /\ retired' = retired
           /\ mPc' = "pairs"
           /\ mPair' = mPair + 1 ]_vars

\* The tracks of the first of two selected pairs could not be fetched; the
\* second pair went through to its report.
C24_Witness ==
    /\ mPc = "report"
    /\ mPair = 2
    /\ PairLabel(artist_duplicate_pairs[1]) \in selected
    /\ merged_pairs = 0
    /\ errors # <<>>
    /\ errors[1] = artist_duplicate_pairs[1][1].Name \o " <-> " \o artist_duplicate_pairs[1][2].Name


\* The ids of the winner's tracks.
WinnerTrackIds == {winner_tracks[i].Id : i \in 1..Len(winner_tracks)}

\* C25: no delete or reassign request of a pair is for a track that is in
\* the winner's track list, also when the catalog lists one track under both
\* artists.
C25_WinnerTracksAreLeftAlone ==
    InPair =>
        \A k \in 1..TracksDone :
            TrackRequest(k).op \in {"delete_item", "update_track_artist"}
                => TrackRequest(k).id \notin WinnerTrackIds

\* C26: the winner of a pair is never an artist that was deleted as the loser
\* of an earlier pair of the same call, so no track is reassigned to the name
\* of an artist retired earlier in the batch.
C26_RetiredArtistIsNeverWinner ==
    /\ InPair => CurWinner.Id \notin retired
    /\ \A j \in 1..Len(requests) :
          requests[j].op = "update_track_artist"
              => \A i \in 1..Len(mRaw) :
                    mRaw[i].Id \in retired => requests[j].arg # mRaw[i].Name

\* C27: for a pair whose tracks were fetched the counts are exact: the tracks
\* counted as deleted or reassigned and the track errors recorded for the pair
\* add up to the loser tracks the loop has been through (all of them once the
\* loop is over), a counted track is one whose request succeeded, and every
\* step of the loop adds exactly one to the counts and the error list taken
\* together.
C27_MergeAccountingIsExact ==
    /\ [](InPair =>
            LET recorded == TrackErrors(TracksDone)
                have     == ErrorsOfTracks
            IN  /\ deleted_dupes + reassigned + Len(recorded) = TracksDone
                /\ Len(have) >= Len(recorded)
                /\ SubSeq(have, Len(have) - Len(recorded) + 1, Len(have)) = recorded
                /\ deleted_dupes + reassigned =
                      Cardinality({k \in 1..TracksDone : TrackRequest(k).ok})
                /\ mPc \in {"retire", "report"} =>
                      deleted_dupes + reassigned + Len(recorded) = Len(loser_tracks))
    /\ [][ (mPc = "tracks" /\ mTrack <= Len(loser_tracks)) =>
              LET r == requests'[Len(requests')]
              IN  /\ mTrack' = mTrack + 1
                  /\ deleted_dupes' + reassigned' + Len(errors')
                        = deleted_dupes + reassigned + Len(errors) + 1
                  /\ deleted_dupes' >= deleted_dupes
                  /\ reassigned' >= reassigned
                  /\ Len(errors') >= Len(errors)
                  /\ deleted_dupes' > deleted_dupes => (r.ok /\ r.op = "delete_item")
                  /\ reassigned' > reassigned => (r.ok /\ r.op = "update_track_artist") ]_vars

\* A pair is reported whose first loser track was deleted as a duplicate and
\* whose second could not be reassigned: one track counted, one error, two
\* loser tracks.
C27_Witness ==
    /\ mPc = "report"
    /\ Len(loser_tracks) = 2
    /\ TrackRequest(1).op = "delete_item" /\ TrackRequest(1).ok
    /\ TrackRequest(2).op = "update_track_artist" /\ ~TrackRequest(2).ok
    /\ deleted_dupes = 1 /\ reassigned = 0
    /\ Len(TrackErrors(2)) = 1


-----------------------------------------------------------------------------
(* Further properties of delete_selected_playlists, checked under SpecPl.   *)

\* The places of the log that hold a delete request for the playlist id.
DeletesOf(id) ==
    {j \in 1..Len(pl_requests) :
        pl_requests[j].op = "delete_item" /\ pl_requests[j].id = id}

\* C28: once the loop over the selection is over, every stored playlist whose
\* label is in the selection got exactly one delete request, also when two
\* stored playlists have the same label.
C28_OneDeletePerSelectedPlaylist ==
    (plPc = "deleting" /\ plIdx > Len(pl_selected)) =>
        \A i \in 1..Len(bogus_playlists) :
            (\E k \in 1..Len(pl_selected) :
                pl_selected[k] = playlist_label(bogus_playlists[i]))
                => Cardinality(DeletesOf(bogus_playlists[i].Id)) = 1


-----------------------------------------------------------------------------
(* Properties of the review index, checked under SpecRename.                *)

\* C29: the review index stays between 0 and the number of groups, and the
\* rename requests of apply_rename are for members of the group on display.
C29_IndexWithinGroups ==
    /\ current_group_index >= 0
    /\ current_group_index <= Len(duplicate_groups)
    /\ ar_requests # <<>> =>
          /\ current_group_index < Len(duplicate_groups)
          /\ \A j \in 1..Len(ar_requests) :
                \E k \in 1..Len(CurrentGroup.artists) :
                    CurrentGroup.artists[k].item_id = ar_requests[j].id


-----------------------------------------------------------------------------
(* Properties of generate_playlist_preview and save_playlist, checked       *)
(* under SpecGp.                                                             *)

\* C30: a create request of save_playlist is for the name and the tracks of
\* the most recent preview call, which succeeded with at least one match;
\* after a preview that was rejected, failed or matched nothing there is no
\* pending playlist and save_playlist makes no request, whatever came before;
\* the matched and the pending track lists never hold more ids than the track
\* count asked for.
C30_SaveOnlyTheLatestPreview ==
    /\ \A j \in 1..Len(create_requests) :
          /\ last_preview.outcome = "ok"
          /\ create_requests[j].name = last_preview.name
          /\ create_requests[j].track_ids = last_preview.track_ids
          /\ Len(create_requests[j].track_ids) >= 1
    /\ Len(create_requests) <= 1
    /\ last_preview.outcome \in {"rejected", "failed", "nomatch", "running"}
          => (pending_playlist = <<>> /\ create_requests = <<>>)
    /\ save_status # "" /\ last_preview.outcome # "ok"
          => save_status = "No playlist preview ready"
    /\ gpPc = "matching" => Len(matched_track_ids) <= track_count
    /\ pending_playlist # <<>> =>
          /\ last_preview.outcome = "ok"
          /\ pending_playlist[1].track_ids = last_preview.track_ids
          /\ Len(pending_playlist[1].track_ids) <= last_preview.track_count

\* An earlier preview succeeded, the most recent one was rejected, failed or
\* matched nothing, and save_playlist was then called and refused.
C30_Witness ==
    /\ last_preview.after_ok
    /\ last_preview.outcome \in {"rejected", "failed", "nomatch"}
    /\ save_status = "No playlist preview ready"
    /\ create_requests = <<>>

=============================================================================
